---- MODULE Spec2Model ----
(***************************************************************************)
(* Job-application autofill pipeline: the Autofill Executor                *)
(* (agents/autofill_agent.py of both project variants, "guo" and "yin"),   *)
(* the scrape boundary with its retry loop, the Field Mapper and the       *)
(* Instruction Generator.                                                  *)
(*                                                                         *)
(* Browser, network and DOM calls are the environment: every call that can *)
(* raise or time out is a nondeterministic choice over its outcomes.       *)
(* Object handles (playwright, browser, page) are numbers, 0 is None.      *)
(***************************************************************************)
EXTENDS Integers, Sequences, FiniteSets, TLC

(***************************************************************************)
(* Bounds of the model.                                                    *)
(***************************************************************************)
\* longest instruction list handed to the executor
MaxFields == 2
\* number of playwright/browser handles the environment hands out
MaxHandles == 4
\* most form controls on a scraped page
MaxElems == 2
\* most field descriptors handed to a mapper
MaxDescriptors == 2
\* most top-level keys of a profile whose schema is derived
MaxKeys == 2

(***************************************************************************)
(* Program constants.                                                      *)
(***************************************************************************)
MAX_RETRIES == 3
RETRY_DELAY == 2

VARIABLES
    variant,            \* which project variant runs: "guo" or "yin"
    g_playwright,       \* module globals _playwright, _browser, _page (guo)
    g_browser,
    g_page,
    self_playwright,    \* fields of the current FormAutofiller instance
    self_browser,
    self_page,
    open_browsers,      \* environment: launched, not yet closed <<browser, playwright>>
    nextId,             \* environment: last handle handed out
    pc,                 \* position inside the executor call
    entry,              \* "direct" (class API) or "boundary" (perform_autofill)
    form_fields,        \* argument: the instruction list (guo) / field_mappings (yin)
    opt_pagination,     \* argument handle_pagination
    opt_close,          \* argument close_browser
    idx,                \* loop index of the running fill pass / pagination probe
    filled_fields,      \* locals of the running fill pass
    not_filled_fields,
    results,            \* the results dict of the call
    cur_url,            \* environment: what page.url reads once this call's goto succeeded
    nav,                \* history: outcomes of the calls inside navigate_to_url
    attempts,           \* history: indices the running fill pass has attempted
    passes,             \* history: fill passes started in this call
    probes,             \* history: handle_pagination invocations in this call
    clicks,             \* history: next/continue clicks that succeeded in this call (2: several)
    out,                \* what the boundary function returned
    s_pc,               \* scraper: position inside perform_scraping / scrape_form
    s_page,             \* scraper: the page behind the URL (environment)
    retries,            \* scraper: local of scrape_form
    last_error,         \* scraper: local of scrape_form
    s_clock,            \* scraper: seconds slept so far in this call
    s_tries,            \* scraper history: <<outcome, clock>> of every request made
    s_out,              \* scraper: what perform_scraping returned
    m_pc,               \* mapper: where the mapping pipeline is
    m_fn,               \* mapper: the boundary function called
    m_fields,           \* mapper: the field list passed in
    m_profile,          \* mapper: the profile (or schema) passed in
    m_out,              \* mapper: what the boundary function returned
    i_out,              \* instruction generator: what it returned
    d_pc,               \* profile store: where the schema derivation is
    d_profile,          \* profile store: the profile passed in
    d_schema            \* profile store: the list extract_schema_from_profile returned

execVars == <<variant, g_playwright, g_browser, g_page, self_playwright,
              self_browser, self_page, open_browsers, nextId, pc, entry,
              form_fields, opt_pagination, opt_close, idx, filled_fields,
              not_filled_fields, results, cur_url, nav, attempts, passes,
              probes, clicks, out>>

sessionVars == <<g_playwright, g_browser, g_page, self_playwright,
                 self_browser, self_page, open_browsers, nextId>>

callVars == <<form_fields, opt_pagination, opt_close, idx, filled_fields,
              not_filled_fields, results, cur_url, nav, attempts, passes,
              probes, clicks>>

scrapeVars == <<s_pc, s_page, retries, last_error, s_clock, s_tries, s_out>>

mapVars == <<m_pc, m_fn, m_fields, m_profile, m_out, i_out>>

schemaVars == <<d_pc, d_profile, d_schema>>

\* what an action of the executor, of the scraper, of the mapper, of the
\* profile store leaves alone
notExecVars == <<scrapeVars, mapVars, schemaVars>>
notScrapeVars == <<execVars, mapVars, schemaVars>>
notMapVars == <<execVars, scrapeVars, schemaVars>>
notSchemaVars == <<execVars, scrapeVars, mapVars>>

vars == <<execVars, scrapeVars, mapVars, schemaVars>>

None == 0

(***************************************************************************)
(* Inputs of the executor.                                                 *)
(***************************************************************************)
\* FillInstructions handed to fill_form_with_instructions (guo): one per path
\* through the loop body (no selector, a method that calls the page, a file
\* input without files, an unknown method)
Instructions ==
    { [field_name |-> "email",  selector |-> "",        fill_method |-> "fill",            has_files |-> FALSE],
      [field_name |-> "email",  selector |-> "#email",  fill_method |-> "fill",            has_files |-> FALSE],
      [field_name |-> "resume", selector |-> "#resume", fill_method |-> "set_input_files", has_files |-> FALSE],
      [field_name |-> "agree",  selector |-> "#agree",  fill_method |-> "hover",           has_files |-> FALSE] }

\* entries of the field_mappings dict handed to fill_form (yin); has_user_field
\* says whether user_field is set and a key of user_data
Mappings ==
    { [field_name |-> "email",  has_user_field |-> FALSE, field_type |-> "email"],
      [field_name |-> "email",  has_user_field |-> TRUE,  field_type |-> "email"],
      [field_name |-> "degree", has_user_field |-> TRUE,  field_type |-> "select"],
      [field_name |-> "agree",  has_user_field |-> TRUE,  field_type |-> "checkbox"],
      [field_name |-> "notes",  has_user_field |-> TRUE,  field_type |-> "textarea"] }

SeqsUpTo(S, n) == UNION { [1..k -> S] : k \in 0..n }

\* a dict has one entry per key
UniqueNames(fs) == \A i, j \in 1..Len(fs) : fs[i].field_name = fs[j].field_name => i = j

FieldLists(v) ==
    IF v = "guo" THEN SeqsUpTo(Instructions, MaxFields)
    ELSE { fs \in SeqsUpTo(Mappings, MaxFields) : UniqueNames(fs) }

\* next_button_selectors of handle_pagination
NextButtonSelectors(v) ==
    IF v = "guo"
    THEN << "button:has-text('Next')", "button:has-text('Continue')",
            "input[type='submit'][value='Next']", "input[type='submit'][value='Continue']",
            "a:has-text('Next')", "a:has-text('Continue')",
            "button[type='submit']", "input[type='submit']" >>
    ELSE << "button:has-text('Next')", "button:has-text('Continue')",
            "input[type='submit'][value='Next']", "input[type='submit'][value='Continue']",
            "a:has-text('Next')", "a:has-text('Continue')" >>

EmptyResults ==
    [success |-> FALSE, filled_fields |-> <<>>, not_filled_fields |-> <<>>,
     final_url |-> "", error |-> "None"]

NoNav == [goto |-> "none", wait |-> "none", title |-> "none", ret |-> FALSE]

NoOut == [format |-> "none"]

(***************************************************************************)
(* Browser session: FormAutofiller.__init__, start_browser, close_browser. *)
(***************************************************************************)
\* the points where start_browser can raise, given the handles left to hand out
StartOutcomes(needPw) ==
    LET pwId == IF needPw THEN nextId + 1 ELSE nextId
        bId  == pwId + 1
    IN  (IF needPw THEN {"playwright_fails"} ELSE {})
        \cup (IF pwId <= MaxHandles THEN {"launch_fails"} ELSE {})
        \cup (IF bId <= MaxHandles THEN {"new_page_fails", "ok"} ELSE {})

\* sync_playwright().start(), chromium.launch(), browser.new_page() in turn;
\* what was assigned before the failing call stays assigned.  A new object
\* gets the next handle; the page of a browser shares its number
LaunchInto(needPw, o, setGlobals) ==
    LET pwId == IF needPw THEN nextId + 1 ELSE self_playwright
        bId  == IF needPw THEN nextId + 2 ELSE nextId + 1
    IN  IF o = "playwright_fails"
        THEN UNCHANGED sessionVars
        ELSE /\ self_playwright' = pwId
             /\ g_playwright' = IF setGlobals /\ needPw THEN pwId ELSE g_playwright
             /\ IF o = "launch_fails"
                THEN /\ nextId' = IF needPw THEN pwId ELSE nextId
                     /\ UNCHANGED <<self_browser, self_page, g_browser, g_page,
                                    open_browsers>>
                ELSE /\ nextId' = bId
                     /\ self_browser' = bId
                     /\ g_browser' = IF setGlobals THEN bId ELSE g_browser
                     /\ open_browsers' = open_browsers \cup {<<bId, pwId>>}
                     /\ IF o = "new_page_fails"
                        THEN UNCHANGED <<self_page, g_page>>
                        ELSE /\ self_page' = bId
                             /\ g_page' = IF setGlobals THEN bId ELSE g_page

AlreadyStarted == self_browser # None /\ self_page # None

\* guo start_browser: a no-op on a started instance
GuoStartOutcomes == IF AlreadyStarted THEN {"ok"} ELSE StartOutcomes(self_playwright = None)

GuoStartBrowser(o) ==
    IF AlreadyStarted
    THEN UNCHANGED sessionVars
    ELSE LaunchInto(self_playwright = None, o, TRUE)

\* yin start_browser: starts playwright, browser and page every time
YinStartBrowser(o) == LaunchInto(TRUE, o, FALSE)

StartBrowserOutcomes == IF variant = "guo" THEN GuoStartOutcomes ELSE StartOutcomes(TRUE)

start_browser(o) == IF variant = "guo" THEN GuoStartBrowser(o) ELSE YinStartBrowser(o)

\* browser.close() closes that browser, playwright.stop() every browser it launched
ClosedBy(b, pw) ==
    { p \in open_browsers : (b # None /\ p[1] = b) \/ (pw # None /\ p[2] = pw) }

GuoCloseBrowser ==
    /\ open_browsers' = open_browsers \ ClosedBy(self_browser, self_playwright)
    /\ g_browser' = IF self_browser # None THEN None ELSE g_browser
    /\ g_playwright' = IF self_playwright # None THEN None ELSE g_playwright
    /\ g_page' = None
    /\ self_browser' = None
    /\ self_playwright' = None
    /\ self_page' = None
    /\ UNCHANGED nextId

YinCloseBrowser ==
    /\ open_browsers' = open_browsers \ ClosedBy(self_browser, self_playwright)
    /\ UNCHANGED <<g_playwright, g_browser, g_page, self_playwright,
                   self_browser, self_page, nextId>>

close_browser == IF variant = "guo" THEN GuoCloseBrowser ELSE YinCloseBrowser

\* FormAutofiller(reuse_browser): picks up the module globals when asked to
\* and both _browser and _page are set
NewAutofiller(reuse) ==
    LET take == variant = "guo" /\ reuse /\ g_browser # None /\ g_page # None
    IN  /\ self_playwright' = IF take THEN g_playwright ELSE None
        /\ self_browser' = IF take THEN g_browser ELSE None
        /\ self_page' = IF take THEN g_page ELSE None
        /\ UNCHANGED <<g_playwright, g_browser, g_page, open_browsers, nextId>>

(***************************************************************************)
(* The executor call: autofill_form_with_instructions (guo) and            *)
(* autofill_form (yin), one action per step of the method.                 *)
(***************************************************************************)
ResetCall ==
    /\ form_fields' = <<>>
    /\ opt_pagination' = FALSE
    /\ opt_close' = FALSE
    /\ idx' = 0
    /\ filled_fields' = <<>>
    /\ not_filled_fields' = <<>>
    /\ results' = EmptyResults
    /\ cur_url' = ""
    /\ nav' = NoNav
    /\ attempts' = <<>>
    /\ passes' = 0
    /\ probes' = 0
    /\ clicks' = 0

\* the method is entered: results is initialised, nothing has run yet
EnterCall(fields, pagination, close) ==
    /\ form_fields' = fields
    /\ opt_pagination' = pagination
    /\ opt_close' = close
    /\ idx' = 0
    /\ filled_fields' = <<>>
    /\ not_filled_fields' = <<>>
    /\ results' = EmptyResults
    /\ cur_url' = ""
    /\ nav' = NoNav
    /\ attempts' = <<>>
    /\ passes' = 0
    /\ probes' = 0
    /\ clicks' = 0
    /\ pc' = "start"

\* where a `return results` inside the try block goes: guo runs its finally
\* clause first, yin has none
AfterBody == IF variant = "guo" THEN "finally" ELSE "returned"

\* direct use of the class: autofiller.autofill_form_with_instructions(...)
CallAutofill ==
    /\ pc = "idle"
    /\ UNCHANGED notExecVars
    /\ \E fields \in FieldLists(variant), pagination \in BOOLEAN, close \in BOOLEAN :
          /\ variant = "yin" => ~close
          /\ EnterCall(fields, pagination, close)
    /\ entry' = "direct"
    /\ out' = NoOut
    /\ UNCHANGED <<variant, sessionVars>>

\* a browser start that raises leaves no error message in the result
StartStep_SwallowsError ==
    /\ pc = "start"
    /\ UNCHANGED notExecVars
    /\ IF variant = "guo" /\ AlreadyStarted
       THEN /\ pc' = "navigate"
            /\ UNCHANGED sessionVars
       ELSE \E o \in StartBrowserOutcomes :
               /\ start_browser(o)
               /\ pc' = IF o = "ok" THEN "navigate" ELSE AfterBody
    /\ UNCHANGED <<variant, entry, form_fields, opt_pagination, opt_close, idx,
                   filled_fields, not_filled_fields, results, cur_url, nav,
                   attempts, passes, probes, clicks, out>>

\* "Start browser if not already started" (guo), self.start_browser() (yin)
StartStep ==
    /\ pc = "start"
    /\ UNCHANGED notExecVars
    /\ IF variant = "guo" /\ AlreadyStarted
       THEN /\ pc' = "navigate"
            /\ UNCHANGED <<sessionVars, results>>
       ELSE \E o \in StartBrowserOutcomes :
               /\ start_browser(o)
               /\ IF o = "ok"
                  THEN pc' = "navigate" /\ UNCHANGED results
                  ELSE /\ results' = [results EXCEPT !.error = "exception"]
                       /\ pc' = AfterBody
    /\ UNCHANGED <<variant, entry, form_fields, opt_pagination, opt_close, idx,
                   filled_fields, not_filled_fields, cur_url, nav, attempts,
                   passes, probes, clicks, out>>

\* navigate_to_url of guo: only goto and the title read are fatal
GuoNavigate(goto, wait, title) ==
    IF goto # "ok"
    THEN [goto |-> goto, wait |-> "none", title |-> "none", ret |-> FALSE]
    ELSE [goto |-> goto, wait |-> wait, title |-> title, ret |-> title = "ok"]

\* navigate_to_url of yin: goto and the wait share one try block
YinNavigate(goto, wait, title) ==
    IF goto # "ok"
    THEN [goto |-> goto, wait |-> "none", title |-> "none", ret |-> FALSE]
    ELSE [goto |-> goto, wait |-> wait, title |-> "none", ret |-> wait = "ok"]

navigate_to_url(goto, wait, title) ==
    IF variant = "guo" THEN GuoNavigate(goto, wait, title)
    ELSE YinNavigate(goto, wait, title)

NavigateStep ==
    /\ pc = "navigate"
    /\ UNCHANGED notExecVars
    /\ \E goto \in {"ok", "fails"}, wait \in {"ok", "timeout"}, title \in {"ok", "fails"} :
          /\ nav' = navigate_to_url(goto, wait, title)
          /\ cur_url' = IF goto = "ok" THEN "form" ELSE cur_url
    /\ pc' = "navigated"
    /\ UNCHANGED <<variant, sessionVars, entry, form_fields, opt_pagination,
                   opt_close, idx, filled_fields, not_filled_fields, results,
                   attempts, passes, probes, clicks, out>>

\* the `return` after a failed navigation is missing: the call goes on to fill
AfterNavigate_NoReturn ==
    /\ pc = "navigated"
    /\ UNCHANGED notExecVars
    /\ pc' = "fill"
    /\ idx' = 1
    /\ passes' = 1
    /\ results' = IF nav.ret THEN results
                  ELSE [results EXCEPT !.error = "Failed to navigate to the form URL"]
    /\ nav' = IF nav.ret THEN NoNav ELSE nav
    /\ UNCHANGED <<variant, sessionVars, entry, form_fields, opt_pagination,
                   opt_close, filled_fields, not_filled_fields, cur_url,
                   attempts, probes, clicks, out>>

\* `if not self.navigate_to_url(...)`: give up, or enter the first fill pass.
\* The outcome of a successful navigation is used here and nowhere else; that
\* of a failed one is kept as history until the call is over
AfterNavigate ==
    /\ pc = "navigated"
    /\ UNCHANGED notExecVars
    /\ IF nav.ret
       THEN /\ pc' = "fill"
            /\ idx' = 1
            /\ passes' = 1
            /\ UNCHANGED results
       ELSE /\ results' = [results EXCEPT !.error = "Failed to navigate to the form URL"]
            /\ pc' = AfterBody
            /\ UNCHANGED <<idx, passes>>
    /\ nav' = IF nav.ret THEN NoNav ELSE nav
    /\ UNCHANGED <<variant, sessionVars, entry, form_fields, opt_pagination,
                   opt_close, filled_fields, not_filled_fields, cur_url,
                   attempts, probes, clicks, out>>

(***************************************************************************)
(* One fill pass: fill_form_with_instructions (guo), fill_form (yin).      *)
(***************************************************************************)
Filled(item) == [to |-> "filled", item |-> item]
NotFilled(item) == [to |-> "not_filled", item |-> item]

\* the body of guo's loop for instruction f: wait is the (soft) wait for the
\* selector, query the element lookup, act the fill call of the method
GuoFillOne(f, wait, query, act) ==
    IF f.selector = "" THEN NotFilled(f.field_name)
    ELSE IF query = "raises" THEN NotFilled(f.selector)
    ELSE IF query = "absent" THEN NotFilled(f.field_name)
    ELSE IF f.fill_method \in {"fill", "select_option", "check"}
         THEN (IF act = "ok" THEN Filled(f.selector) ELSE NotFilled(f.selector))
    ELSE IF f.fill_method = "set_input_files"
         THEN (IF f.has_files /\ act = "ok" THEN Filled(f.selector)
               ELSE NotFilled(f.selector))
    ELSE NotFilled(f.selector)

\* the body of yin's loop for the entry m of field_mappings; option says
\* whether an option of a select matches the user's value
YinFillOne(m, query, act, option) ==
    IF ~m.has_user_field THEN NotFilled(m.field_name)
    ELSE IF query # "found" THEN NotFilled(m.field_name)
    ELSE IF m.field_type = "select" /\ ~option THEN NotFilled(m.field_name)
    ELSE IF act = "ok" THEN Filled(m.field_name)
    ELSE NotFilled(m.field_name)

\* a field that could not be filled ends the loop
AfterInstruction_Aborts(i, r) ==
    IF r.to = "not_filled" THEN Len(form_fields) + 1 ELSE i + 1

\* the loop goes on with the next instruction whatever the outcome r was
AfterInstruction(i, r) == i + 1

\* the field is recorded as filled as soon as its element is found, before
\* the fill call: a fill that raises leaves an entry in both lists
FillStep_RecordsBeforeFilling ==
    /\ pc = "fill"
    /\ UNCHANGED notExecVars
    /\ idx \in 1..Len(form_fields)
    /\ \E wait \in {"ok", "timeout"}, query \in {"found", "absent", "raises"},
          act \in {"ok", "raises"}, option \in BOOLEAN :
          LET f == form_fields[idx]
              r == IF variant = "guo" THEN GuoFillOne(f, wait, query, act)
                   ELSE YinFillOne(f, query, act, option)
          IN  /\ filled_fields' = IF r.to = "filled" \/ query = "found"
                                  THEN Append(filled_fields, r.item)
                                  ELSE filled_fields
              /\ not_filled_fields' = IF r.to = "not_filled"
                                      THEN Append(not_filled_fields, r.item)
                                      ELSE not_filled_fields
              /\ idx' = AfterInstruction(idx, r)
    /\ attempts' = Append(attempts, idx)
    /\ UNCHANGED <<variant, sessionVars, pc, entry, form_fields, opt_pagination,
                   opt_close, results, cur_url, nav, passes, probes, clicks, out>>

FillStep ==
    /\ pc = "fill"
    /\ UNCHANGED notExecVars
    /\ idx \in 1..Len(form_fields)
    /\ \E wait \in {"ok", "timeout"}, query \in {"found", "absent", "raises"},
          act \in {"ok", "raises"}, option \in BOOLEAN :
          LET f == form_fields[idx]
              r == IF variant = "guo" THEN GuoFillOne(f, wait, query, act)
                   ELSE YinFillOne(f, query, act, option)
          IN  /\ filled_fields' = IF r.to = "filled"
                                  THEN Append(filled_fields, r.item)
                                  ELSE filled_fields
              /\ not_filled_fields' = IF r.to = "not_filled"
                                      THEN Append(not_filled_fields, r.item)
                                      ELSE not_filled_fields
              /\ idx' = AfterInstruction(idx, r)
    /\ attempts' = Append(attempts, idx)
    /\ UNCHANGED <<variant, sessionVars, pc, entry, form_fields, opt_pagination,
                   opt_close, results, cur_url, nav, passes, probes, clicks, out>>

\* results[...].extend(fill_results[...])
Extend(res, filled, notFilled) ==
    [res EXCEPT !.filled_fields = @ \o filled,
                !.not_filled_fields = @ \o notFilled]

\* pagination is probed after every pass, not only the first
ProbesPagination_EveryPass(pass, pagination) == pagination

\* pagination is looked at after the first pass only, and only when asked for
ProbesPagination(pass, pagination) == pass = 1 /\ pagination

\* the pass returns to the caller, which extends results and goes on
FillReturn ==
    /\ pc = "fill"
    /\ UNCHANGED notExecVars
    /\ idx > Len(form_fields)
    /\ results' = Extend(results, filled_fields, not_filled_fields)
    /\ IF ProbesPagination(passes, opt_pagination)
       THEN /\ pc' = "paginate"
            /\ idx' = 1
            /\ probes' = probes + 1
       ELSE /\ pc' = "finish"
            /\ UNCHANGED <<idx, probes>>
    /\ UNCHANGED <<variant, sessionVars, entry, form_fields, opt_pagination,
                   opt_close, filled_fields, not_filled_fields, cur_url, nav,
                   attempts, passes, clicks, out>>

(***************************************************************************)
(* handle_pagination: one action per probed selector.                      *)
(***************************************************************************)
\* the history counts 0, 1, and 2 for "more than one"
CountUpTo2(n) == IF n < 2 THEN n + 1 ELSE n

\* TRUE when the probe of one selector makes handle_pagination return True:
\* guo waits for the next page in a try block of its own, yin in the block
\* that also holds the click
ProbeReturnsTrue(o, wait) ==
    IF variant = "guo" THEN o = "clicked"
    ELSE o = "clicked" /\ wait = "ok"

PaginateStep ==
    /\ pc = "paginate"
    /\ UNCHANGED notExecVars
    /\ idx \in 1..Len(NextButtonSelectors(variant))
    /\ \E o \in {"absent", "query_raises", "click_raises", "clicked"},
          wait \in {"ok", "timeout"} :
          /\ clicks' = IF o = "clicked" THEN CountUpTo2(clicks) ELSE clicks
          /\ cur_url' = IF o = "clicked" THEN "next" ELSE cur_url
          /\ IF ProbeReturnsTrue(o, wait)
             THEN /\ pc' = "fill"
                  /\ idx' = 1
                  /\ passes' = passes + 1
                  /\ filled_fields' = <<>>
                  /\ not_filled_fields' = <<>>
                  /\ attempts' = <<>>
             ELSE /\ idx' = idx + 1
                  /\ UNCHANGED <<pc, passes, filled_fields, not_filled_fields, attempts>>
    /\ UNCHANGED <<variant, sessionVars, entry, form_fields, opt_pagination,
                   opt_close, results, nav, probes, out>>

\* no selector made it return True: handle_pagination returns False
PaginateReturn ==
    /\ pc = "paginate"
    /\ UNCHANGED notExecVars
    /\ idx > Len(NextButtonSelectors(variant))
    /\ pc' = "finish"
    /\ UNCHANGED <<variant, sessionVars, entry, form_fields, opt_pagination,
                   opt_close, idx, filled_fields, not_filled_fields, results,
                   cur_url, nav, attempts, passes, probes, clicks, out>>

\* success is reported only when some field was filled
Finish_NeedsFilled ==
    /\ pc = "finish"
    /\ UNCHANGED notExecVars
    /\ results' = [results EXCEPT !.final_url = cur_url,
                                  !.success = (results.filled_fields # <<>>)]
    /\ pc' = AfterBody
    /\ UNCHANGED <<variant, sessionVars, entry, form_fields, opt_pagination,
                   opt_close, idx, filled_fields, not_filled_fields, cur_url,
                   nav, attempts, passes, probes, clicks, out>>

\* results['final_url'] = self.extract_current_url(); results['success'] = True
Finish ==
    /\ pc = "finish"
    /\ UNCHANGED notExecVars
    /\ results' = [results EXCEPT !.final_url = cur_url, !.success = TRUE]
    /\ pc' = AfterBody
    /\ UNCHANGED <<variant, sessionVars, entry, form_fields, opt_pagination,
                   opt_close, idx, filled_fields, not_filled_fields, cur_url,
                   nav, attempts, passes, probes, clicks, out>>

\* the finally clause of guo's method
Finally ==
    /\ pc = "finally"
    /\ UNCHANGED notExecVars
    /\ IF opt_close THEN close_browser ELSE UNCHANGED sessionVars
    /\ pc' = "returned"
    /\ UNCHANGED <<variant, entry, callVars, out>>

(***************************************************************************)
(* Direct use of the class between calls.                                  *)
(***************************************************************************)
Construct ==
    /\ pc = "idle"
    /\ UNCHANGED notExecVars
    /\ \E reuse \in BOOLEAN : NewAutofiller(reuse)
    /\ UNCHANGED <<variant, pc, entry, callVars, out>>

StartBrowserCall ==
    /\ pc = "idle"
    /\ UNCHANGED notExecVars
    /\ \E o \in StartBrowserOutcomes : start_browser(o)
    /\ UNCHANGED <<variant, pc, entry, callVars, out>>

CloseBrowserCall ==
    /\ pc = "idle"
    /\ UNCHANGED notExecVars
    /\ close_browser
    /\ UNCHANGED <<variant, pc, entry, callVars, out>>

\* the caller has the results dict; the frame is gone
ReturnDirect ==
    /\ pc = "returned"
    /\ UNCHANGED notExecVars
    /\ entry = "direct"
    /\ pc' = "idle"
    /\ ResetCall
    /\ UNCHANGED <<variant, sessionVars, entry, out>>

(***************************************************************************)
(* The autofill boundary: perform_autofill.  A returned string is          *)
(* [format, ...]: "json" for json.dumps of a dict, "text" for a plain      *)
(* message that json.loads does not accept.                                *)
(***************************************************************************)
\* an error object or message has the keys success and error only
JsonError(msg) == [format |-> "json", success |-> FALSE, error |-> msg]
TextError(msg) == [format |-> "text", success |-> FALSE, error |-> msg]

\* documents that perform_autofill turns down before any browser work
BadDocs == {"invalid_json", "not_an_object", "no_form_url", "no_form_fields"}

\* guo answers every rejected document with a JSON error object
GuoReject(doc) ==
    CASE doc = "invalid_json"   -> JsonError("Error performing form autofill: json")
      [] doc = "not_an_object"  -> JsonError("Error performing form autofill: attribute")
      [] doc = "no_form_url"    -> JsonError("No form URL provided")
      [] doc = "no_form_fields" -> JsonError("No form fields provided")

\* yin answers with plain messages; a mapping_data that is no object raises
\* inside the try block and comes back as a message too
YinReject(doc) ==
    CASE doc = "invalid_json"   -> TextError("Error: Invalid JSON format in mapping_data parameter")
      [] doc = "not_an_object"  -> TextError("Error performing form autofill: attribute")
      [] doc = "no_form_url"    -> TextError("Error: No form URL provided")
      [] doc = "no_form_fields" -> TextError("Error: No mapping data provided")

\* the float a / b of Python's true division, kept as the exact fraction
Fraction(a, b) == [num |-> a, den |-> b]

\* the rate is computed without the guard on an empty result
fill_rate_unguarded(filled_count, not_filled_count) ==
    Fraction(filled_count * 100, filled_count + not_filled_count)

\* len(filled) / (len(filled) + len(not_filled)) * 100 if the sum is > 0 else 0
fill_rate(filled_count, not_filled_count) ==
    IF filled_count + not_filled_count > 0
    THEN Fraction(filled_count * 100, filled_count + not_filled_count)
    ELSE Fraction(0, 1)

\* results['metrics'] = {...}
Metrics(res) ==
    [filled_count     |-> Len(res.filled_fields),
     not_filled_count |-> Len(res.not_filled_fields),
     fill_rate        |-> fill_rate(Len(res.filled_fields), Len(res.not_filled_fields))]

\* json.dumps(results) with the metrics added
DumpResults(res) ==
    [format |-> "json", success |-> res.success, error |-> res.error,
     metrics |-> Metrics(res)]

PerformAutofillRejects ==
    /\ pc = "idle"
    /\ UNCHANGED notExecVars
    /\ \E doc \in BadDocs :
          out' = IF variant = "guo" THEN GuoReject(doc) ELSE YinReject(doc)
    /\ pc' = "done"
    /\ entry' = "boundary"
    /\ UNCHANGED <<variant, sessionVars, callVars>>

\* a well-formed document: a fresh FormAutofiller runs the call.  guo passes
\* handle_pagination=False and close_browser = not keep_browser_open, yin
\* leaves handle_pagination at its default True
PerformAutofill ==
    /\ pc = "idle"
    /\ UNCHANGED notExecVars
    /\ \E fields \in FieldLists(variant), keep \in BOOLEAN, reuse \in BOOLEAN :
          /\ variant = "guo" => fields # <<>>
          /\ variant = "yin" => keep /\ ~reuse
          /\ NewAutofiller(reuse)
          /\ EnterCall(fields, variant = "yin", ~keep)
    /\ entry' = "boundary"
    /\ out' = NoOut
    /\ UNCHANGED variant

PerformAutofillReturn ==
    /\ pc = "returned"
    /\ UNCHANGED notExecVars
    /\ entry = "boundary"
    /\ out' = DumpResults(results)
    /\ pc' = "done"
    /\ UNCHANGED <<variant, sessionVars, entry, callVars>>

\* the caller has the string
Done ==
    /\ pc = "done"
    /\ UNCHANGED notExecVars
    /\ pc' = "idle"
    /\ ResetCall
    /\ out' = NoOut
    /\ entry' = "direct"
    /\ UNCHANGED <<variant, sessionVars>>

ExecInit ==
    /\ variant \in {"guo", "yin"}
    /\ g_playwright = None
    /\ g_browser = None
    /\ g_page = None
    /\ self_playwright = None
    /\ self_browser = None
    /\ self_page = None
    /\ open_browsers = {}
    /\ nextId = 0
    /\ pc = "idle"
    /\ entry = "direct"
    /\ form_fields = <<>>
    /\ opt_pagination = FALSE
    /\ opt_close = FALSE
    /\ idx = 0
    /\ filled_fields = <<>>
    /\ not_filled_fields = <<>>
    /\ results = EmptyResults
    /\ cur_url = ""
    /\ nav = NoNav
    /\ attempts = <<>>
    /\ passes = 0
    /\ probes = 0
    /\ clicks = 0
    /\ out = NoOut

ExecNext ==
    \/ Construct
    \/ StartBrowserCall
    \/ CloseBrowserCall
    \/ CallAutofill
    \/ PerformAutofillRejects
    \/ PerformAutofill
    \/ StartStep
    \/ NavigateStep
    \/ AfterNavigate
    \/ FillStep
    \/ FillReturn
    \/ PaginateStep
    \/ PaginateReturn
    \/ Finish
    \/ Finally
    \/ ReturnDirect
    \/ PerformAutofillReturn
    \/ Done

(***************************************************************************)
(* The scrape boundary: perform_scraping, scrape_form and its retry loop,  *)
(* extract_field_data (agents/scraper_agent.py of guo).                    *)
(***************************************************************************)
\* input, select and textarea elements as BeautifulSoup hands them over;
\* type "" is an input without a type attribute
Elements ==
    { [tag |-> "input",    type |-> "",       name |-> "first_name", required |-> TRUE],
      [tag |-> "input",    type |-> "email",  name |-> "email",      required |-> FALSE],
      [tag |-> "input",    type |-> "hidden", name |-> "csrf",       required |-> FALSE],
      [tag |-> "input",    type |-> "submit", name |-> "",           required |-> FALSE],
      [tag |-> "input",    type |-> "button", name |-> "more",       required |-> FALSE],
      [tag |-> "select",   type |-> "",       name |-> "degree",     required |-> TRUE],
      [tag |-> "textarea", type |-> "",       name |-> "",           required |-> FALSE] }

Pages ==
    { [in_form |-> f, pagination |-> g, elements |-> es] :
        f \in BOOLEAN, g \in BOOLEAN, es \in SeqsUpTo(Elements, MaxElems) }

NoPage == [in_form |-> FALSE, pagination |-> FALSE, elements |-> <<>>]

\* input_field.get('type', 'text')
InputType(el) == IF el.type = "" THEN "text" ELSE el.type

\* only hidden inputs are skipped, submit and button inputs get a descriptor
extract_field_data_hidden_only(el) ==
    IF el.tag = "input" /\ InputType(el) = "hidden"
    THEN <<>>
    ELSE << [type |-> IF el.tag # "input" THEN el.tag ELSE InputType(el),
             name |-> el.name,
             required |-> el.required] >>

\* extract_field_data: <<>> is None, <<d>> the field's descriptor
extract_field_data(el) ==
    IF el.tag = "input" /\ InputType(el) \in {"hidden", "submit", "button"}
    THEN <<>>
    ELSE << [type |-> IF el.tag # "input" THEN el.tag ELSE InputType(el),
             name |-> el.name,
             required |-> el.required] >>

RECURSIVE ExtractAll(_)
\* the loops over the inputs: a descriptor is appended when there is one
ExtractAll(es) ==
    IF es = <<>> THEN <<>>
    ELSE extract_field_data(Head(es)) \o ExtractAll(Tail(es))

\* the dict scrape_form returns; a descriptor found inside a form carries the
\* form's id and name
ScrapedData(page) ==
    LET found == ExtractAll(page.elements)
    IN [form_fields |-> [i \in 1..Len(found) |-> found[i] @@ [of_form |-> page.in_form]],
        pagination |-> page.pagination]

\* one retry too many
RetriesLeft_OneMore(n) == n <= MAX_RETRIES + 1

\* `if retries <= MAX_RETRIES` after a failed attempt: sleep and go round again
RetriesLeft(n) == n <= MAX_RETRIES

ScrapeCall ==
    /\ s_pc = "idle"
    /\ s_page' \in Pages
    /\ retries' = 0
    /\ last_error' = "None"
    /\ s_clock' = 0
    /\ s_tries' = <<>>
    /\ s_out' = NoOut
    /\ s_pc' = "request"
    /\ UNCHANGED notScrapeVars

\* one turn of the while loop: the request and the parsing in its try block.
\* perform_scraping dumps the dict the loop returns, and turns what the loop
\* raises into a message
ScrapeAttempt ==
    /\ s_pc = "request"
    /\ \E o \in {"ok", "timeout", "request_error", "error"} :
          /\ s_tries' = Append(s_tries, <<o, s_clock>>)
          /\ IF o = "ok"
             THEN /\ s_out' = [format |-> "json", data |-> ScrapedData(s_page)]
                  /\ s_pc' = "done"
                  /\ UNCHANGED <<retries, last_error>>
             ELSE /\ last_error' = o
                  /\ retries' = retries + 1
                  /\ IF RetriesLeft(retries + 1)
                     THEN s_pc' = "sleep" /\ UNCHANGED s_out
                     ELSE /\ s_out' = [format |-> "text",
                                       data |-> <<"Error scraping the form", o>>]
                          /\ s_pc' = "done"
    /\ UNCHANGED <<s_page, s_clock>>
    /\ UNCHANGED notScrapeVars

\* time.sleep(RETRY_DELAY), then the loop condition, true here
ScrapeSleep ==
    /\ s_pc = "sleep"
    /\ s_clock' = s_clock + RETRY_DELAY
    /\ s_pc' = "request"
    /\ UNCHANGED <<s_page, retries, last_error, s_tries, s_out>>
    /\ UNCHANGED notScrapeVars

\* the caller has the string
ScrapeDone ==
    /\ s_pc = "done"
    /\ s_pc' = "idle"
    /\ s_page' = NoPage
    /\ retries' = 0
    /\ last_error' = "None"
    /\ s_clock' = 0
    /\ s_tries' = <<>>
    /\ s_out' = NoOut
    /\ UNCHANGED notScrapeVars

ScrapeInit ==
    /\ s_pc = "idle"
    /\ s_page = NoPage
    /\ retries = 0
    /\ last_error = "None"
    /\ s_clock = 0
    /\ s_tries = <<>>
    /\ s_out = NoOut

ScrapeNext ==
    \/ ScrapeCall
    \/ ScrapeAttempt
    \/ ScrapeSleep
    \/ ScrapeDone

(***************************************************************************)
(* Text: str.lower, the `in` test on strings, and re.match on the patterns *)
(* of the pattern table.                                                   *)
(***************************************************************************)
LowerChar(c) ==
    CASE c = "A" -> "a" [] c = "B" -> "b" [] c = "C" -> "c" [] c = "D" -> "d"
      [] c = "E" -> "e" [] c = "F" -> "f" [] c = "G" -> "g" [] c = "H" -> "h"
      [] c = "I" -> "i" [] c = "J" -> "j" [] c = "K" -> "k" [] c = "L" -> "l"
      [] c = "M" -> "m" [] c = "N" -> "n" [] c = "O" -> "o" [] c = "P" -> "p"
      [] c = "Q" -> "q" [] c = "R" -> "r" [] c = "S" -> "s" [] c = "T" -> "t"
      [] c = "U" -> "u" [] c = "V" -> "v" [] c = "W" -> "w" [] c = "X" -> "x"
      [] c = "Y" -> "y" [] c = "Z" -> "z" [] OTHER -> c

RECURSIVE Lower(_)
Lower(s) == IF s = "" THEN "" ELSE LowerChar(Head(s)) \o Lower(Tail(s))

\* s[i:]
From(s, i) == SubSeq(s, i, Len(s))

\* s.startswith(w)
StartsWith(s, w) == Len(w) <= Len(s) /\ SubSeq(s, 1, Len(w)) = w

\* sub in s
Contains(sub, s) == \E i \in 1..(Len(s) + 1) : StartsWith(From(s, i), sub)

\* the class [ _-]
Separators == {" ", "_", "-"}

RECURSIVE MatchesHere(_, _)
\* a pattern is its literal words, each two joined by an optional [ _-]:
\* <<"first", "name">> is first[ _-]?name. True when s begins with a match.
MatchesHere(words, s) ==
    IF words = <<>> THEN TRUE
    ELSE /\ StartsWith(s, Head(words))
         /\ LET rest == From(s, Len(Head(words)) + 1)
            IN IF Tail(words) = <<>> THEN TRUE
               ELSE \/ MatchesHere(Tail(words), rest)
                    \/ /\ rest # ""
                       /\ Head(rest) \in Separators
                       /\ MatchesHere(Tail(words), Tail(rest))

\* re.match(f".*{pattern}.*", s), s on one line
re_match(words, s) == \E i \in 1..(Len(s) + 1) : MatchesHere(words, From(s, i))

(***************************************************************************)
(* The pattern-table mapper: map_fields_to_user_data and perform_mapping   *)
(* (agents/mapper_agent.py of yin).                                        *)
(***************************************************************************)
\* the dict literal, in declaration order; a key is the literal text
field_mapping_patterns ==
    << [user_field |-> "name",
        patterns |-> << <<"name">>, <<"full", "name">>, <<"your", "name">> >>],
       [user_field |-> "first[ _-]?name",
        patterns |-> << <<"first", "name">>, <<"given", "name">>, <<"forename">> >>],
       [user_field |-> "last[ _-]?name",
        patterns |-> << <<"last", "name">>, <<"family", "name">>, <<"surname">> >>],
       [user_field |-> "email",
        patterns |-> << <<"email">>, <<"e", "mail">>, <<"email", "address">> >>],
       [user_field |-> "phone",
        patterns |-> << <<"phone">>, <<"telephone">>, <<"mobile">>, <<"cell">>, <<"phone", "number">> >>],
       [user_field |-> "address",
        patterns |-> << <<"address">>, <<"street", "address">>, <<"mailing", "address">> >>],
       [user_field |-> "city",
        patterns |-> << <<"city">>, <<"town">> >>],
       [user_field |-> "state",
        patterns |-> << <<"state">>, <<"province">>, <<"region">> >>],
       [user_field |-> "zip",
        patterns |-> << <<"zip">>, <<"zip", "code">>, <<"postal", "code">> >>],
       [user_field |-> "country",
        patterns |-> << <<"country">>, <<"nation">> >>],
       [user_field |-> "education",
        patterns |-> << <<"education">>, <<"degree">>, <<"qualification">> >>],
       [user_field |-> "university",
        patterns |-> << <<"university">>, <<"college">>, <<"school">>, <<"institution">> >>],
       [user_field |-> "major",
        patterns |-> << <<"major">>, <<"field", "of", "study">>, <<"course">> >>],
       [user_field |-> "gpa",
        patterns |-> << <<"gpa">>, <<"grade", "point", "average">> >>],
       [user_field |-> "graduation",
        patterns |-> << <<"graduation", "date">>, <<"year", "of", "graduation">>, <<"completion", "date">> >>],
       [user_field |-> "experience",
        patterns |-> << <<"experience">>, <<"work", "experience">>, <<"employment", "history">> >>],
       [user_field |-> "company",
        patterns |-> << <<"company">>, <<"employer">>, <<"organization">>, <<"firm">> >>],
       [user_field |-> "position",
        patterns |-> << <<"position">>, <<"title">>, <<"job", "title">>, <<"role">> >>],
       [user_field |-> "start_date",
        patterns |-> << <<"start", "date">>, <<"from">>, <<"beginning", "date">> >>],
       [user_field |-> "end_date",
        patterns |-> << <<"end", "date">>, <<"to">>, <<"completion", "date">> >>],
       [user_field |-> "skills",
        patterns |-> << <<"skills">>, <<"abilities">>, <<"competencies">>, <<"proficiencies">> >>],
       [user_field |-> "languages",
        patterns |-> << <<"languages">>, <<"language", "proficiency">> >>],
       [user_field |-> "resume",
        patterns |-> << <<"resume">>, <<"cv">>, <<"curriculum", "vitae">> >>],
       [user_field |-> "cover_letter",
        patterns |-> << <<"cover", "letter">>, <<"motivation", "letter">>, <<"application", "letter">> >>],
       [user_field |-> "references",
        patterns |-> << <<"references">>, <<"referees">> >>],
       [user_field |-> "portfolio",
        patterns |-> << <<"portfolio">>, <<"work", "samples">>, <<"projects">> >>],
       [user_field |-> "linkedin",
        patterns |-> << <<"linkedin">>, <<"linkedin", "profile">>, <<"linkedin", "url">> >>],
       [user_field |-> "github",
        patterns |-> << <<"github">>, <<"github", "profile">>, <<"github", "url">> >>],
       [user_field |-> "website",
        patterns |-> << <<"website">>, <<"personal", "website">>, <<"portfolio", "website">> >>],
       [user_field |-> "salary",
        patterns |-> << <<"salary">>, <<"salary", "expectation">>, <<"expected", "salary">>, <<"desired", "salary">> >>],
       [user_field |-> "availability",
        patterns |-> << <<"availability">>, <<"start", "date">>, <<"when", "can", "you", "start">> >>],
       [user_field |-> "visa",
        patterns |-> << <<"visa", "status">>, <<"work", "authorization">>, <<"right", "to", "work">> >>],
       [user_field |-> "gender",
        patterns |-> << <<"gender">>, <<"sex">> >>],
       [user_field |-> "race",
        patterns |-> << <<"race">>, <<"ethnicity">> >>],
       [user_field |-> "veteran",
        patterns |-> << <<"veteran", "status">>, <<"military", "service">> >>],
       [user_field |-> "disability",
        patterns |-> << <<"disability">>, <<"disability", "status">> >>] >>

\* does some pattern of the category match the name, id, label or placeholder
\* (all lower-cased), and is the category a key of the schema
CategoryMaps(cat, field, schema) ==
    /\ cat.user_field \in schema
    /\ \E k \in 1..Len(cat.patterns) :
          \/ re_match(cat.patterns[k], Lower(field.name))
          \/ re_match(cat.patterns[k], Lower(field.id))
          \/ re_match(cat.patterns[k], Lower(field.label))
          \/ re_match(cat.patterns[k], Lower(field.placeholder))

\* the categories the two loops would stop at; the first is taken
MappingCategories(field, schema) ==
    { c \in 1..Len(field_mapping_patterns) :
        CategoryMaps(field_mapping_patterns[c], field, schema) }

\* the last of the categories is taken, not the first
Min_Last(S) == CHOOSE x \in S : \A y \in S : x >= y

Min(S) == CHOOSE x \in S : \A y \in S : x <= y

\* mapping[k] = v on a dict kept as a sequence of <<key, value>>: a key that
\* is there keeps its place and gets the new value
Put(d, k, v) ==
    IF \E i \in 1..Len(d) : d[i][1] = k
    THEN [i \in 1..Len(d) |-> IF d[i][1] = k THEN <<k, v>> ELSE d[i]]
    ELSE Append(d, <<k, v>>)

RECURSIVE map_fields_to_user_data(_, _, _)
\* the loop over form_fields, acc being mapping and required_missing_fields
map_fields_to_user_data(fields, user_data_schema, acc) ==
    IF fields = <<>> THEN acc
    ELSE LET field == Head(fields)
             cats  == MappingCategories(field, user_data_schema)
             next  ==
                 IF cats # {}
                 THEN [acc EXCEPT !.field_mapping =
                          Put(@, field.name,
                              [user_field |-> field_mapping_patterns[Min(cats)].user_field,
                               required |-> field.required,
                               field_type |-> field.type])]
                 ELSE IF field.required
                 THEN [acc EXCEPT !.required_missing_fields =
                          Append(@, [name |-> IF Lower(field.name) # ""
                                              THEN Lower(field.name)
                                              ELSE Lower(field.id),
                                     label |-> Lower(field.label),
                                     type |-> field.type])]
                 ELSE acc
         IN map_fields_to_user_data(Tail(fields), user_data_schema, next)

NoMapping == [field_mapping |-> <<>>, required_missing_fields |-> <<>>]

(***************************************************************************)
(* The mapper: generate_autofill_instructions and flatten_user_data        *)
(* (agents/mapper_agent.py of guo).                                        *)
(***************************************************************************)
\* profile values: a string, a dict (its items in order), a list
Str(v) == [kind |-> "str", value |-> v]
Dict(items) == [kind |-> "dict", items |-> items]
List(items) == [kind |-> "list", items |-> items]
Bool(b) == [kind |-> "bool", value |-> b]

RECURSIVE flatten_dict(_, _, _)
\* flatten_dict(d, prefix) writing into flat_data
flatten_dict(items, prefix, flat_data) ==
    IF items = <<>> THEN flat_data
    ELSE LET key     == Head(items)[1]
             value   == Head(items)[2]
             new_key == prefix \o key
             flat    ==
                 IF value.kind = "dict"
                 THEN flatten_dict(value.items, new_key \o ".", flat_data)
                 ELSE IF /\ value.kind = "list"
                         /\ value.items # <<>>
                         /\ value.items[1].kind = "dict"
                 THEN flatten_dict(value.items[1].items, new_key \o ".", flat_data)
                 ELSE Put(flat_data, new_key, value)
         IN flatten_dict(Tail(items), prefix, flat)

flatten_user_data(user_data) == flatten_dict(user_data.items, "", <<>>)

RECURSIVE Joined(_)
Joined(items) ==
    IF items = <<>> THEN ""
    ELSE "'" \o Head(items).value \o "'"
         \o (IF Tail(items) = <<>> THEN "" ELSE ", ") \o Joined(Tail(items))

\* str(value): a string as it is, a list of strings as Python prints it
str(v) == IF v.kind = "str" THEN v.value ELSE "[" \o Joined(v.items) \o "]"

\* the test both branches of the loop over flat_user_data come to: equal, or
\* one contained in the other
KeyMatches(field_name, user_field) ==
    \/ Lower(field_name) = Lower(user_field)
    \/ Contains(Lower(field_name), Lower(user_field))
    \/ Contains(Lower(user_field), Lower(field_name))

\* the keys the loop would break at; it breaks at the first
MatchingKeys(field_name, flat_user_data) ==
    { k \in 1..Len(flat_user_data) : KeyMatches(field_name, flat_user_data[k][1]) }

\* an option also matches when its text or value is contained in the value
MatchingOptions_EitherWay(options, value) ==
    { k \in 1..Len(options) :
        /\ ~(Lower(options[k].text) = "" /\ Lower(options[k].value) = "")
        /\ \/ Contains(Lower(str(value)), Lower(options[k].text))
           \/ Contains(Lower(str(value)), Lower(options[k].value))
           \/ Contains(Lower(options[k].text), Lower(str(value)))
           \/ Contains(Lower(options[k].value), Lower(str(value))) }

\* the options the loop over options would break at
MatchingOptions(options, value) ==
    { k \in 1..Len(options) :
        /\ ~(Lower(options[k].text) = "" /\ Lower(options[k].value) = "")
        /\ \/ Contains(Lower(str(value)), Lower(options[k].text))
           \/ Contains(Lower(str(value)), Lower(options[k].value)) }

\* no field is skipped
SkipsField_Never(field) == FALSE

\* `if not field_name: continue`
SkipsField(field) == field.name = ""

NoInstructions == [matched_fields |-> <<>>, unmapped_required_fields |-> <<>>]

\* one turn of the loop over form_fields
MapOne(field, flat_user_data, acc) ==
    LET keys    == MatchingKeys(field.name, flat_user_data)
        matched == keys # {}
        value   == flat_user_data[Min(keys)][2]
        opts    == MatchingOptions(field.options, value)
        selected_option == IF opts = {} THEN "" ELSE field.options[Min(opts)].value
    IN IF SkipsField(field) THEN acc
       ELSE IF matched /\ field.type = "select" /\ field.options # <<>>
       THEN IF selected_option # ""
            THEN [acc EXCEPT !.matched_fields =
                     Append(@, [field_name |-> field.name, field_type |-> field.type,
                                selected_option |-> selected_option])]
            ELSE IF field.required
            THEN [acc EXCEPT !.unmapped_required_fields = Append(@, field.name)]
            ELSE acc
       ELSE IF matched
       THEN [acc EXCEPT !.matched_fields =
                Append(@, [field_name |-> field.name, field_type |-> field.type,
                           value |-> value])]
       ELSE IF field.required
       THEN [acc EXCEPT !.unmapped_required_fields = Append(@, field.name)]
       ELSE acc

RECURSIVE MapAll(_, _, _)
MapAll(fields, flat_user_data, acc) ==
    IF fields = <<>> THEN acc
    ELSE MapAll(Tail(fields), flat_user_data, MapOne(Head(fields), flat_user_data, acc))

\* a document at a boundary: the parsed object, its JSON text, or a text
\* that json.loads turns down
DocForms == {"object", "json", "not_json"}

\* what the boundary's except clause returns: the message, not JSON
ErrorText(prefix) == [format |-> "text", data |-> prefix]

JsonText(value) == [format |-> "json", data |-> value]

generate_autofill_instructions(scraped_form, fields, user_form, user_data) ==
    IF scraped_form = "not_json" \/ user_form = "not_json"
    THEN ErrorText("Error generating fill instructions")
    ELSE JsonText(MapAll(fields, flatten_user_data(user_data), NoInstructions))

\* the counts and the grade; coverage is mapped / total * 100, 0 without fields
analyze_mapping_quality(mapping_result, fields) ==
    LET total_fields  == Len(fields)
        mapped_fields == Len(mapping_result.field_mapping)
    IN [total_form_fields |-> total_fields,
        mapped_fields |-> mapped_fields,
        missing_required_fields |-> Len(mapping_result.required_missing_fields),
        quality_assessment |->
            IF total_fields > 0 /\ mapped_fields * 100 >= 80 * total_fields THEN "Good"
            ELSE IF total_fields > 0 /\ mapped_fields * 100 >= 50 * total_fields THEN "Fair"
            ELSE "Poor"]

\* perform_mapping of yin, its schema already a dict
perform_mapping(scraped_form, fields, user_data_schema) ==
    IF scraped_form = "not_json"
    THEN ErrorText("Error performing mapping")
    ELSE LET mapping_result == map_fields_to_user_data(fields, user_data_schema, NoMapping)
         IN JsonText([mapping_result |-> mapping_result,
                      quality_analysis |-> analyze_mapping_quality(mapping_result, fields)])

(***************************************************************************)
(* The instruction generator (agents/instruction_generator.py of yin).     *)
(***************************************************************************)
\* matched_field.get("value", "")
ValueOf(matched_field) ==
    IF "value" \in DOMAIN matched_field THEN matched_field.value ELSE Str("")

\* the scoped selector without the id alternative
build_selector_without_fallback(field_name, field_type) ==
    IF field_type \in {"checkbox", "radio"}
    THEN "input[type='" \o field_type \o "'][name='" \o field_name \o "']"
    ELSE IF field_type = "select" THEN "select[name='" \o field_name \o "']"
    ELSE IF field_type = "textarea" THEN "textarea[name='" \o field_name \o "']"
    ELSE "input[name='" \o field_name \o "']"

build_selector_from_matched_field(field_name, field_type) ==
    LET scoped ==
            IF field_type \in {"checkbox", "radio"}
            THEN "input[type='" \o field_type \o "'][name='" \o field_name \o "']"
            ELSE IF field_type = "select" THEN "select[name='" \o field_name \o "']"
            ELSE IF field_type = "textarea" THEN "textarea[name='" \o field_name \o "']"
            ELSE "input[name='" \o field_name \o "']"
    IN (IF field_name # "" THEN scoped \o ", " ELSE "") \o "#" \o field_name

\* a file input is filled like a text input
determine_fill_method_no_file(field_type) ==
    IF field_type = "select" THEN "select_option"
    ELSE IF field_type \in {"checkbox", "radio"} THEN "check"
    ELSE "fill"

determine_fill_method(field_type) ==
    IF field_type = "select" THEN "select_option"
    ELSE IF field_type \in {"checkbox", "radio"} THEN "check"
    ELSE IF field_type = "file" THEN "set_input_files"
    ELSE "fill"

\* the text of the string is read: "false" is False
parse_boolean_reading_text(v) ==
    IF v.kind = "bool" THEN v.value
    ELSE IF v.kind = "str" THEN v.value \notin {"", "false"}
    ELSE v.items # <<>>

\* a bool as it is, bool(value) of a string or a list
parse_boolean(v) ==
    IF v.kind = "bool" THEN v.value
    ELSE IF v.kind = "str" THEN v.value # ""
    ELSE v.items # <<>>

\* one turn of the loop over matched_fields: <<>> when the field is skipped
InstructionFor(matched_field) ==
    LET field_name == matched_field.field_name
        field_type == matched_field.field_type
        value      == ValueOf(matched_field)
        base       == [field_name |-> field_name,
                       field_type |-> field_type,
                       selector   |-> build_selector_from_matched_field(field_name, field_type),
                       fill_method |-> determine_fill_method(field_type)]
    IN IF field_name = "" \/ field_type = "" THEN <<>>
       ELSE IF field_type = "select"
       THEN << base @@ [selected_value |-> value] >>
       ELSE IF field_type \in {"checkbox", "radio"}
       THEN << base @@ [checked |-> parse_boolean(value)] >>
       ELSE << base @@ [value |-> value] >>

RECURSIVE InstructionsFor(_)
InstructionsFor(matched_fields) ==
    IF matched_fields = <<>> THEN <<>>
    ELSE InstructionFor(Head(matched_fields)) \o InstructionsFor(Tail(matched_fields))

\* the generator given what the mapper returned, text or JSON
GenerateFrom(mapper_out) ==
    IF mapper_out.format # "json"
    THEN ErrorText("Error generating autofill instructions")
    ELSE JsonText([form_fields |-> InstructionsFor(mapper_out.data.matched_fields)])

(***************************************************************************)
(* The mapping pipeline as its callers drive it.                           *)
(***************************************************************************)
NoOptions == <<>>

Degrees == << [value |-> "ba", text |-> "Bachelor's"], [value |-> "ma", text |-> "Master's"] >>

\* descriptors as the scraper of guo emits them
Descriptors ==
    { [name |-> "email",     id |-> "email_addr", type |-> "email",    required |-> TRUE,
       options |-> NoOptions],
      [name |-> "",          id |-> "",           type |-> "text",     required |-> TRUE,
       options |-> NoOptions],
      [name |-> "Phone",     id |-> "Phone",      type |-> "tel",      required |-> TRUE,
       options |-> NoOptions],
      [name |-> "degree",    id |-> "degree",     type |-> "select",   required |-> TRUE,
       options |-> Degrees],
      [name |-> "degree",    id |-> "",           type |-> "select",   required |-> TRUE,
       options |-> NoOptions],
      [name |-> "degree",    id |-> "",           type |-> "text",     required |-> FALSE,
       options |-> NoOptions],
      [name |-> "subscribe", id |-> "",           type |-> "checkbox", required |-> FALSE,
       options |-> NoOptions] }

Profiles ==
    { Dict(<<>>),
      Dict(<< <<"email", Str("ann@example.org")>>,
              <<"degree", Str("master's degree")>> >>),
      Dict(<< <<"email_backup", Str("old@example.org")>>,
              <<"email", Str("ann@example.org")>> >>),
      Dict(<< <<"degree", Str("Master")>> >>),
      Dict(<< <<"personal", Dict(<< <<"first_name", Str("Ann")>>,
                                    <<"Email", Str("ann@example.org")>> >>)>>,
              <<"education", List(<< Dict(<< <<"degree", Str("PhD")>> >>) >>)>>,
              <<"skills", List(<< Str("tla"), Str("python") >>)>> >>) }

\* descriptors as the scraper of yin emits them
YinDescriptors ==
    { [name |-> "email", id |-> "email", label |-> "Email", placeholder |-> "",
       type |-> "email", required |-> TRUE],
      [name |-> "", id |-> "", label |-> "E-mail address", placeholder |-> "",
       type |-> "text", required |-> FALSE],
      [name |-> "", id |-> "", label |-> "Favourite colour", placeholder |-> "",
       type |-> "text", required |-> TRUE],
      [name |-> "", id |-> "fname", label |-> "", placeholder |-> "First Name",
       type |-> "text", required |-> TRUE],
      [name |-> "surname", id |-> "", label |-> "", placeholder |-> "",
       type |-> "text", required |-> FALSE] }

\* the keys of a profile schema
Schemas == SUBSET {"name", "email", "first[ _-]?name"}

\* the scraped document handed to a mapper
ScrapedDocs(descriptors) ==
    { [form |-> f, form_fields |-> fs] :
        f \in {"object", "json"}, fs \in SeqsUpTo(descriptors, MaxDescriptors) }
    \cup { [form |-> "not_json", form_fields |-> <<>>] }

ProfileDocs ==
    { [form |-> f, user_data |-> p] : f \in {"object", "json"}, p \in Profiles }
    \cup { [form |-> "not_json", user_data |-> Dict(<<>>)] }

NoDoc == [form |-> "none"]

\* generate_autofill_instructions of the mapper is called
MapperCall ==
    /\ m_pc = "idle"
    /\ \E scraped \in ScrapedDocs(Descriptors), user \in ProfileDocs :
          /\ m_fields' = scraped
          /\ m_profile' = user
          /\ m_out' = generate_autofill_instructions(scraped.form, scraped.form_fields,
                                                     user.form, user.user_data)
    /\ m_fn' = "generate_autofill_instructions"
    /\ m_pc' = "mapped"
    /\ UNCHANGED i_out
    /\ UNCHANGED notMapVars

\* perform_mapping is called
PerformMappingCall ==
    /\ m_pc = "idle"
    /\ \E scraped \in ScrapedDocs(YinDescriptors), schema \in Schemas :
          /\ m_fields' = scraped
          /\ m_profile' = [form |-> "object", schema |-> schema]
          /\ m_out' = perform_mapping(scraped.form, scraped.form_fields, schema)
    /\ m_fn' = "perform_mapping"
    /\ m_pc' = "returned"
    /\ UNCHANGED i_out
    /\ UNCHANGED notMapVars

\* the mapper's string goes on to the instruction generator
GeneratorCall ==
    /\ m_pc = "mapped"
    /\ i_out' = GenerateFrom(m_out)
    /\ m_pc' = "returned"
    /\ UNCHANGED <<m_fn, m_fields, m_profile, m_out>>
    /\ UNCHANGED notMapVars

\* the values a matched field handed to the generator has
MatchedValues == { Str(""), Str("false"), Bool(TRUE), Bool(FALSE) }

\* matched fields as a caller of the generator writes them: a name, a type
\* and a value, and one without a name and one without a type
MatchedFieldDocs ==
    { [field_name |-> n, field_type |-> t, value |-> v] :
        n \in {"agree", "cv"},
        t \in {"text", "textarea", "select", "checkbox", "radio", "file"},
        v \in MatchedValues }
    \cup { [field_name |-> "", field_type |-> "checkbox", value |-> Str("false")],
           [field_name |-> "agree", field_type |-> "", value |-> Str("false")] }

\* generate_autofill_instructions of the generator is called with a
\* matched-fields document of the caller's own
GeneratorDirectCall ==
    /\ m_pc = "idle"
    /\ \E mfs \in SeqsUpTo(MatchedFieldDocs, MaxDescriptors) :
          /\ m_fields' = [form |-> "object", matched_fields |-> mfs]
          /\ i_out' = GenerateFrom(JsonText([matched_fields |-> mfs]))
    /\ m_fn' = "instruction_generator"
    /\ m_pc' = "generated"
    /\ UNCHANGED <<m_profile, m_out>>
    /\ UNCHANGED notMapVars

\* the caller is done with the strings
MapperReturn ==
    /\ m_pc \in {"mapped", "returned", "generated"}
    /\ m_pc' = "idle"
    /\ m_fn' = "none"
    /\ m_fields' = NoDoc
    /\ m_profile' = NoDoc
    /\ m_out' = NoOut
    /\ i_out' = NoOut
    /\ UNCHANGED notMapVars

MapInit ==
    /\ m_pc = "idle"
    /\ m_fn = "none"
    /\ m_fields = NoDoc
    /\ m_profile = NoDoc
    /\ m_out = NoOut
    /\ i_out = NoOut

MapNext ==
    \/ MapperCall
    \/ PerformMappingCall
    \/ GeneratorCall
    \/ GeneratorDirectCall
    \/ MapperReturn

(***************************************************************************)
(* The profile store's schema derivation (agents/db_agent.py of yin).      *)
(***************************************************************************)
RECURSIVE PutSubKeys(_, _, _)
\* for sub_key in value[0].keys(): schema[f"{new_key}.{sub_key}"] = True
PutSubKeys(items, new_key, schema) ==
    IF items = <<>> THEN schema
    ELSE PutSubKeys(Tail(items), new_key,
                    Put(schema, new_key \o "." \o Head(items)[1], TRUE))

RECURSIVE process_dict(_, _, _)
\* process_dict(d, prefix) writing into schema; a list is never an instance
\* of (str, int, float, bool), so the outer test on a list is `if value`
process_dict(items, prefix, schema) ==
    IF items = <<>> THEN schema
    ELSE LET key     == Head(items)[1]
             value   == Head(items)[2]
             new_key == prefix \o key
             next    ==
                 IF value.kind = "dict"
                 THEN process_dict(value.items, new_key \o ".", schema)
                 ELSE IF /\ value.kind = "list"
                         /\ value.items # <<>>
                         /\ value.items[1].kind = "dict"
                 THEN PutSubKeys(value.items[1].items, new_key, schema)
                 ELSE Put(schema, new_key, TRUE)
         IN process_dict(Tail(items), prefix, next)

\* list(schema.keys())
extract_schema_from_profile(profile) ==
    LET schema == process_dict(profile.items, "", <<>>)
    IN [i \in 1..Len(schema) |-> schema[i][1]]

\* the values a key of a stored profile has: scalars, nested objects, lists
\* of scalars, lists of objects
StoredValues ==
    LET leaf  == Str("x")
        one   == Dict(<< <<"name", leaf>> >>)
        two   == Dict(<< <<"name", leaf>>, <<"year", leaf>> >>)
        deep  == Dict(<< <<"school", one>> >>)
        mixed == Dict(<< <<"year", leaf>>, <<"school", two>> >>)
    IN { leaf, Dict(<<>>), one, two, deep, mixed,
         List(<<>>), List(<< leaf, leaf >>),
         List(<< one >>), List(<< two, one >>), List(<< one, deep >>),
         List(<< deep >>), List(<< mixed, one >>),
         List(<< Dict(<< <<"refs", List(<< one >>)>> >>) >>) }

\* the top-level keys, in the order the profile has them
StoredKeys == <<"personal", "education", "work", "skills">>

\* the profiles of the store
StoredProfiles ==
    { Dict([i \in 1..Len(vs) |-> <<StoredKeys[i], vs[i]>>]) :
        vs \in SeqsUpTo(StoredValues, MaxKeys) }

\* extract_schema_from_profile is called on a stored profile
SchemaCall ==
    /\ d_pc = "idle"
    /\ \E profile \in StoredProfiles :
          /\ d_profile' = profile
          /\ d_schema' = extract_schema_from_profile(profile)
    /\ d_pc' = "returned"
    /\ UNCHANGED notSchemaVars

\* the caller has the list
SchemaReturn ==
    /\ d_pc = "returned"
    /\ d_pc' = "idle"
    /\ d_profile' = Dict(<<>>)
    /\ d_schema' = <<>>
    /\ UNCHANGED notSchemaVars

SchemaInit ==
    /\ d_pc = "idle"
    /\ d_profile = Dict(<<>>)
    /\ d_schema = <<>>

SchemaNext ==
    \/ SchemaCall
    \/ SchemaReturn

(***************************************************************************)
(* Specifications: the executor, the scrape boundary and the mapping       *)
(* pipeline, each on its own.                                              *)
(***************************************************************************)
Init == ExecInit /\ ScrapeInit /\ MapInit /\ SchemaInit

Next == ExecNext

Spec == Init /\ [][Next]_vars

InitScrape == ExecInit /\ variant = "guo" /\ ScrapeInit /\ MapInit /\ SchemaInit

SpecScrape == InitScrape /\ [][ScrapeNext]_vars

InitMapper == ExecInit /\ variant = "guo" /\ ScrapeInit /\ MapInit /\ SchemaInit

SpecMapper == InitMapper /\ [][MapNext]_vars

\* the executor as perform_autofill of guo drives it: every call through the
\* boundary, which never asks for pagination
InitBoundary == Init /\ variant = "guo"

BoundaryNext ==
    \/ PerformAutofillRejects
    \/ PerformAutofill
    \/ StartStep
    \/ NavigateStep
    \/ AfterNavigate
    \/ FillStep
    \/ FillReturn
    \/ Finish
    \/ Finally
    \/ PerformAutofillReturn
    \/ Done

SpecBoundary == InitBoundary /\ [][BoundaryNext]_vars

InitSchema == ExecInit /\ variant = "yin" /\ ScrapeInit /\ MapInit /\ SchemaInit

SpecSchema == InitSchema /\ [][SchemaNext]_vars

(***************************************************************************)
(* Properties of the executor.                                             *)
(***************************************************************************)
\* the call is over: its result is what the caller gets
CallOver == pc \in {"returned", "done"}

NavigationFailed == nav.goto # "none" /\ ~nav.ret

UpTo(n) == [i \in 1..n |-> i]

\* C1: when navigation to the form URL fails, the call returns success=false
\* with a non-empty error string, filled_fields and not_filled_fields are
\* both empty, and no fill instruction has been attempted.
C1_NavigationFailureIsFatal ==
    (CallOver /\ NavigationFailed) =>
        /\ results.success = FALSE
        /\ results.error \notin {"None", ""}
        /\ results.filled_fields = <<>>
        /\ results.not_filled_fields = <<>>
        /\ passes = 0
        /\ attempts = <<>>
        /\ filled_fields = <<>>
        /\ not_filled_fields = <<>>

C1_Witness ==
    /\ pc = "returned"
    /\ nav.goto = "fails"
    /\ Len(form_fields) = 2
    /\ results.error = "Failed to navigate to the form URL"

\* what an instruction can leave in the filled / not-filled lists
ItemsOf(f) ==
    IF variant = "guo" THEN {f.field_name, f.selector} ELSE {f.field_name}

\* C2: in a fill pass every instruction of the list is attempted, in order,
\* whatever the outcomes of the earlier ones were (element not found, fill
\* action throws, unknown fill method): while the pass runs, instructions
\* 1..idx-1 have been attempted and each left one record naming its field,
\* and a pass that is over has attempted 1..N.
C2_EveryInstructionAttempted ==
    /\ pc = "fill" =>
          /\ idx \in 1..(Len(form_fields) + 1)
          /\ attempts = UpTo(idx - 1)
          /\ Len(filled_fields) + Len(not_filled_fields) = idx - 1
          /\ \A k \in 1..Len(not_filled_fields) :
                \E i \in 1..(idx - 1) : not_filled_fields[k] \in ItemsOf(form_fields[i])
    /\ (pc \in {"paginate", "finish", "finally", "returned", "done"} /\ passes >= 1) =>
          attempts = UpTo(Len(form_fields))

\* an unknown fill method on the first instruction, the second one filled
C2_Witness ==
    /\ variant = "guo"
    /\ pc = "finish"
    /\ Len(form_fields) = 2
    /\ form_fields[1].fill_method = "hover"
    /\ results.not_filled_fields = <<"#agree">>
    /\ results.filled_fields = <<"#email">>
    /\ attempts = <<1, 2>>

\* C3: once navigation succeeded and the fill loop ran to completion the
\* result has success=true (and no error), for any number of not-filled
\* fields, also when no field at all was filled.
C3_SuccessAfterFillLoop ==
    (CallOver /\ passes >= 1) =>
        /\ results.success = TRUE
        /\ results.error = "None"

\* scenario D: one fill instruction whose selector matches nothing
C3_Witness ==
    /\ variant = "guo"
    /\ pc = "returned"
    /\ Len(form_fields) = 1
    /\ form_fields[1].fill_method = "fill"
    /\ results.filled_fields = <<>>
    /\ results.not_filled_fields = <<"email">>
    /\ results.success

\* C4: the fill pass runs at most twice; a second pass runs exactly when
\* pagination handling is enabled and a next/continue control was found and
\* clicked after the first pass; there is never a third pass nor a second
\* pagination probe.
C4_SecondPassIffClicked ==
    /\ passes <= 2
    /\ probes <= 1
    /\ (CallOver /\ results.success) =>
          (passes = 2 <=> (opt_pagination /\ clicks >= 1))

\* C5: once goto has succeeded, a timeout of the wait that follows does not
\* fail navigation: navigate_to_url returns True (the title read of guo is
\* left out of the statement: it is no wait).
C5_WaitTimeoutIsSoft ==
    (pc = "navigated" /\ nav.goto = "ok" /\ nav.wait = "timeout" /\ nav.title # "fails")
        => nav.ret

\* C6: close_browser on a FormAutofiller that never started a browser is a
\* no-op: nothing is closed and the module's session handle (_playwright,
\* _browser, _page) is left as it was.
C6_CloseNeverStartedIsNoOp ==
    [][(CloseBrowserCall /\ self_playwright = None /\ self_browser = None
          /\ self_page = None)
        => UNCHANGED <<g_playwright, g_browser, g_page, open_browsers>>]_vars

\* C7: start_browser on a FormAutofiller whose browser is already started
\* is a no-op: no second browser or page is launched and the instance's and
\* the module's handles are unchanged.
C7_StartWhenStartedIsNoOp ==
    [][(StartBrowserCall /\ AlreadyStarted) => UNCHANGED sessionVars]_vars

(***************************************************************************)
(* Properties of the scrape boundary.                                      *)
(***************************************************************************)
Failures(tries) == { i \in 1..Len(tries) : tries[i][1] # "ok" }

\* C8: scrape_form makes at most MAX_RETRIES+1 requests, RETRY_DELAY apart,
\* stops at the first that succeeds, and perform_scraping ends with the
\* scraped data or, after the last failed attempt, with an error value, never
\* with neither.
C8_BoundedRetries ==
    /\ Len(s_tries) <= MAX_RETRIES + 1
    /\ retries = Cardinality(Failures(s_tries))
    /\ \A i \in 1..(Len(s_tries) - 1) :
          /\ s_tries[i][1] # "ok"
          /\ s_tries[i + 1][2] - s_tries[i][2] = RETRY_DELAY
    /\ s_pc = "done" =>
          /\ s_tries # <<>>
          /\ s_out.format = "json" <=> s_tries[Len(s_tries)][1] = "ok"
          /\ s_out.format = "text" <=>
                (Len(s_tries) = MAX_RETRIES + 1 /\ s_tries[Len(s_tries)][1] # "ok")
          /\ s_out.format \in {"json", "text"}
    /\ s_pc \in {"request", "sleep"} => Len(s_tries) <= MAX_RETRIES

\* three failed requests, then a fourth that fails too: the error comes back
C8_Witness ==
    /\ s_pc = "done"
    /\ Len(s_tries) = MAX_RETRIES + 1
    /\ s_out.format = "text"
    /\ s_clock = MAX_RETRIES * RETRY_DELAY
    /\ Len(s_page.elements) = 2

(***************************************************************************)
(* Properties of the boundaries and of the mappers.                        *)
(***************************************************************************)
\* C9: whatever a boundary function is given, a string that is not JSON
\* included, what it returns is a JSON document: the success payload or an
\* error object.
C9_BoundariesReturnJson ==
    /\ m_pc \in {"mapped", "returned"} => m_out.format = "json"
    /\ i_out # NoOut => i_out.format = "json"
    /\ s_pc = "done" => s_out.format = "json"
    /\ pc = "done" => out.format = "json"

\* C10: no mapper emits a mapping under an empty field name, and none lists
\* a required field it could not map under an empty name.
C10_NoMappingForEmptyName ==
    m_pc \in {"mapped", "returned"} /\ m_out.format = "json" =>
        IF m_fn = "generate_autofill_instructions"
        THEN /\ \A i \in 1..Len(m_out.data.matched_fields) :
                    m_out.data.matched_fields[i].field_name # ""
             /\ \A i \in 1..Len(m_out.data.unmapped_required_fields) :
                    m_out.data.unmapped_required_fields[i] # ""
        ELSE /\ \A i \in 1..Len(m_out.data.mapping_result.field_mapping) :
                    m_out.data.mapping_result.field_mapping[i][1] # ""
             /\ \A i \in 1..Len(m_out.data.mapping_result.required_missing_fields) :
                    m_out.data.mapping_result.required_missing_fields[i].name # ""

\* the mapper has returned its JSON document
MapperAnswered ==
    /\ m_pc \in {"mapped", "returned"}
    /\ m_fn = "generate_autofill_instructions"
    /\ m_out.format = "json"

RECURSIVE LastSegment(_)
\* the part of a dot path after its last dot
LastSegment(path) ==
    IF \E i \in 1..Len(path) : SubSeq(path, i, i) = "."
    THEN LastSegment(Tail(path))
    ELSE path

\* the keys of a flat profile that equal the name, as full path or last segment
ExactKeys(name, flat) ==
    { k \in 1..Len(flat) :
        \/ Lower(flat[k][1]) = Lower(name)
        \/ Lower(LastSegment(flat[k][1])) = Lower(name) }

\* C11: a field whose name equals a profile key gets its value from such a
\* key, also when a key that only contains the name comes earlier in the
\* profile.
C11_ExactMatchPreferred ==
    MapperAnswered =>
        LET flat == flatten_user_data(m_profile.user_data)
            mf   == m_out.data.matched_fields
        IN \A i \in 1..Len(mf) :
              "value" \in DOMAIN mf[i] /\ ExactKeys(mf[i].field_name, flat) # {} =>
                  \E k \in ExactKeys(mf[i].field_name, flat) : mf[i].value = flat[k][2]

\* the names of the fields with a mapping
MatchedNames(mf) == { mf[j].field_name : j \in 1..Len(mf) }

\* the names listed as required and not mapped
UnmappedNames(ur) == { ur[j] : j \in 1..Len(ur) }

\* the field is the only one of its name in the list
OnlyOfItsName(fields, i) == \A j \in 1..Len(fields) : fields[j].name = fields[i].name => j = i

\* the options whose text or value contains the candidate value
OptionsContaining(options, value) ==
    { k \in 1..Len(options) :
        \/ Contains(Lower(str(value)), Lower(options[k].text))
        \/ Contains(Lower(str(value)), Lower(options[k].value)) }

\* C12: a select field with a candidate value is mapped exactly when an
\* option's text or value contains the candidate, and then to the value of
\* the first such option; with no such option (an empty option list
\* included) it has no mapping and, when required, is listed as unmapped.
C12_SelectResolvedByOption ==
    MapperAnswered =>
        LET fields == m_fields.form_fields
            flat   == flatten_user_data(m_profile.user_data)
            mf     == m_out.data.matched_fields
            ur     == m_out.data.unmapped_required_fields
        IN \A i \in 1..Len(fields) :
              /\ fields[i].type = "select"
              /\ fields[i].name # ""
              /\ OnlyOfItsName(fields, i)
              /\ MatchingKeys(fields[i].name, flat) # {}
              => LET value == flat[Min(MatchingKeys(fields[i].name, flat))][2]
                     hits  == OptionsContaining(fields[i].options, value)
                 IN IF hits # {}
                    THEN \E j \in 1..Len(mf) :
                            /\ mf[j].field_name = fields[i].name
                            /\ "selected_option" \in DOMAIN mf[j]
                            /\ mf[j].selected_option = fields[i].options[Min(hits)].value
                    ELSE /\ fields[i].name \notin MatchedNames(mf)
                         /\ fields[i].required => fields[i].name \in UnmappedNames(ur)

\* the value the matching loop found for the field name
Candidate(name, flat) == flat[Min(MatchingKeys(name, flat))][2]

\* the field list holds, once, the select field degree with the options
\* Bachelor's (ba) and Master's (ma), and the profile value found for it is v
ScenarioB(v) ==
    /\ MapperAnswered
    /\ \E i \in 1..Len(m_fields.form_fields) :
          /\ m_fields.form_fields[i].name = "degree"
          /\ m_fields.form_fields[i].type = "select"
          /\ m_fields.form_fields[i].options = Degrees
          /\ OnlyOfItsName(m_fields.form_fields, i)
    /\ MatchingKeys("degree", flatten_user_data(m_profile.user_data)) # {}
    /\ Candidate("degree", flatten_user_data(m_profile.user_data)) = Str(v)

\* the field degree is mapped to the option value v
DegreeResolvedTo(v) ==
    \E j \in 1..Len(m_out.data.matched_fields) :
        /\ m_out.data.matched_fields[j].field_name = "degree"
        /\ "selected_option" \in DOMAIN m_out.data.matched_fields[j]
        /\ m_out.data.matched_fields[j].selected_option = v

\* C13 as stated: with the profile value "master's degree" the field degree
\* resolves to the option value "ma".
C13_LongerValueResolves ==
    ScenarioB("master's degree") => DegreeResolvedTo("ma")

\* C13 amended: with the profile value "master's degree" no option's text or
\* value contains the value, so degree has no mapping and is listed as
\* required and unmapped; a value an option's text contains, "Master",
\* resolves to "ma".
C13_LongerValueUnresolved ==
    /\ ScenarioB("master's degree") =>
          /\ "degree" \notin MatchedNames(m_out.data.matched_fields)
          /\ \A i \in 1..Len(m_fields.form_fields) :
                m_fields.form_fields[i].name = "degree" /\ m_fields.form_fields[i].required
                => "degree" \in UnmappedNames(m_out.data.unmapped_required_fields)
    /\ ScenarioB("Master") => DegreeResolvedTo("ma")

C13_Witness ==
    /\ ScenarioB("master's degree")
    /\ m_out.data.unmapped_required_fields = <<"degree">>
    /\ m_out.data.matched_fields # <<>>

RECURSIVE RequiredAbsent(_, _)
\* the names, in input order, of the named required fields whose name has no
\* mapping
RequiredAbsent(fields, matched) ==
    IF fields = <<>> THEN <<>>
    ELSE (IF Head(fields).name # "" /\ Head(fields).required /\ Head(fields).name \notin matched
          THEN <<Head(fields).name>> ELSE <<>>)
         \o RequiredAbsent(Tail(fields), matched)

\* no two named fields of the list share a name
DistinctNames(fields) ==
    \A i, j \in 1..Len(fields) :
        fields[i].name # "" /\ fields[i].name = fields[j].name => i = j

\* C14 as stated: for every field list, unmappedRequired is the sequence of
\* the names of the named required fields absent from matchedFields, in
\* input order; so no name is in both, no required named field is in
\* neither, no other field is listed.
C14_UnmappedIsRequiredAbsent ==
    MapperAnswered =>
        m_out.data.unmapped_required_fields =
            RequiredAbsent(m_fields.form_fields, MatchedNames(m_out.data.matched_fields))

\* C14 amended: the same for the field lists in which no two named fields
\* share a name; for every list, a name in unmappedRequired is the name of a
\* required named field of the list.
C14_UnmappedIsRequiredAbsentOfDistinct ==
    MapperAnswered =>
        /\ DistinctNames(m_fields.form_fields) =>
              /\ m_out.data.unmapped_required_fields =
                    RequiredAbsent(m_fields.form_fields,
                                   MatchedNames(m_out.data.matched_fields))
              /\ MatchedNames(m_out.data.matched_fields)
                    \cap UnmappedNames(m_out.data.unmapped_required_fields) = {}
        /\ \A n \in UnmappedNames(m_out.data.unmapped_required_fields) :
              \E i \in 1..Len(m_fields.form_fields) :
                  /\ m_fields.form_fields[i].name = n
                  /\ n # ""
                  /\ m_fields.form_fields[i].required

\* one field gets a mapping, the required field after it none
C14_Witness ==
    /\ MapperAnswered
    /\ DistinctNames(m_fields.form_fields)
    /\ Len(m_fields.form_fields) = 2
    /\ Len(m_out.data.matched_fields) = 1
    /\ m_out.data.unmapped_required_fields = <<m_fields.form_fields[2].name>>

\* the instruction generator has been given the mapper's document and has
\* returned its own
GeneratorAnswered ==
    /\ m_pc = "returned"
    /\ m_fn = "generate_autofill_instructions"
    /\ m_out.format = "json"
    /\ i_out.format = "json"

\* C15: a select field the mapper resolved to the option value v gets an
\* instruction with fill method select_option and selected value v.
C15_SelectedOptionHandedOver ==
    GeneratorAnswered =>
        \A j \in 1..Len(m_out.data.matched_fields) :
            "selected_option" \in DOMAIN m_out.data.matched_fields[j] =>
                \E k \in 1..Len(i_out.data.form_fields) :
                    /\ i_out.data.form_fields[k].field_name =
                           m_out.data.matched_fields[j].field_name
                    /\ i_out.data.form_fields[k].fill_method = "select_option"
                    /\ "selected_value" \in DOMAIN i_out.data.form_fields[k]
                    /\ i_out.data.form_fields[k].selected_value =
                           Str(m_out.data.matched_fields[j].selected_option)

\* the element a kind-scoped attribute selector on the name is written for
ScopedOnName(name, kind) ==
    CASE kind \in {"checkbox", "radio"} -> "input[type='" \o kind \o "'][name='" \o name \o "']"
      [] kind = "select"                -> "select[name='" \o name \o "']"
      [] kind = "textarea"              -> "textarea[name='" \o name \o "']"
      [] OTHER                          -> "input[name='" \o name \o "']"

\* the fields of the list with the name of the instruction
FieldsNamed(name) ==
    { i \in 1..Len(m_fields.form_fields) : m_fields.form_fields[i].name = name }

\* C16: the selector of an instruction is the kind-scoped attribute selector
\* on the field's name joined with the id selector for the field's id
\* (name email, id email_addr: input[name='email'], #email_addr).
C16_SelectorFallsBackToId ==
    GeneratorAnswered =>
        \A k \in 1..Len(i_out.data.form_fields) :
            LET ins == i_out.data.form_fields[k]
            IN \A i \in FieldsNamed(ins.field_name) :
                  m_fields.form_fields[i].id # "" /\ OnlyOfItsName(m_fields.form_fields, i) =>
                      ins.selector = ScopedOnName(ins.field_name, ins.field_type)
                                     \o ", #" \o m_fields.form_fields[i].id

\* C16 amended: the alternative joined to the kind-scoped attribute selector
\* is the id selector written with the field's name, not with its id
\* (name email, id email_addr: input[name='email'], #email).
C16_SelectorFallsBackToName ==
    GeneratorAnswered =>
        \A k \in 1..Len(i_out.data.form_fields) :
            LET ins == i_out.data.form_fields[k]
            IN /\ ins.selector = ScopedOnName(ins.field_name, ins.field_type)
                                 \o ", #" \o ins.field_name
               /\ ins.field_name = "email" => ins.selector = "input[name='email'], #email"

C16_Witness ==
    /\ GeneratorAnswered
    /\ \E k \in 1..Len(i_out.data.form_fields) :
          /\ i_out.data.form_fields[k].field_name = "email"
          /\ \E i \in FieldsNamed("email") : m_fields.form_fields[i].id = "email_addr"


(***************************************************************************)
(* C17: the states of one call of the executor.                            *)
(***************************************************************************)
\* the state the call is in: Navigating is the call of navigate_to_url,
\* Starting the browser start that precedes it, Done and Failed the two
\* outcomes of a call whose result is ready
ExecutorState ==
    CASE pc \in {"idle", "done"}           -> "Idle"
      [] pc = "start"                      -> "Starting"
      [] pc \in {"navigate", "navigated"}  -> "Navigating"
      [] pc = "fill"                       -> "Filling"
      [] pc = "paginate"                   -> "Paginating"
      [] pc = "finish"                     -> "Done"
      [] pc \in {"finally", "returned"}    ->
            IF results.success THEN "Done" ELSE "Failed"

\* the changes of state the state machine has, the browser start counted as
\* the way from Idle into Navigating
ClaimedTransitions ==
    { <<"Idle", "Starting">>, <<"Starting", "Navigating">>,
      <<"Navigating", "Filling">>, <<"Navigating", "Failed">>,
      <<"Filling", "Paginating">>, <<"Filling", "Done">>,
      <<"Paginating", "Filling">>, <<"Paginating", "Done">>,
      <<"Done", "Idle">>, <<"Failed", "Idle">> }

\* a change of state is one of `allowed`; Filling is entered from Navigating
\* only when navigation returned True and is failed otherwise; Paginating is
\* entered only at the end of the first pass, every instruction attempted
StateStep(allowed) ==
    ExecutorState' # ExecutorState =>
        /\ <<ExecutorState, ExecutorState'>> \in allowed
        /\ (ExecutorState = "Navigating" /\ ExecutorState' = "Filling") =>
              pc = "navigated" /\ nav.ret
        /\ (ExecutorState = "Navigating" /\ ExecutorState' = "Failed") =>
              pc = "navigated" /\ ~nav.ret
        /\ ExecutorState' = "Paginating" =>
              /\ passes = 1
              /\ attempts = UpTo(Len(form_fields))
        /\ (ExecutorState = "Paginating" /\ ExecutorState' = "Filling") =>
              passes' = 2
        /\ ExecutorState' = "Failed" =>
              passes = 0 /\ attempts = <<>>

C17_WitnessStartFailed ==
    /\ pc = "returned"
    /\ ExecutorState = "Failed"
    /\ nav = NoNav
    /\ results.error = "exception"


(***************************************************************************)
(* C18: what the two passes leave in the result.                           *)
(***************************************************************************)
\* the step that ends a fill pass
PassEnds == pc = "fill" /\ pc' # "fill"

\* C18: with pagination enabled and a next/continue control present (found
\* and clicked), filled_fields and not_filled_fields of the result are the
\* outcomes of the first pass followed by those of the second pass: each
\* pass appends its outcomes to what the result holds, nothing else touches
\* the lists, and a second pass has run when the result is completed;
\* final_url is read after the last pass and is the URL of the page that
\* pagination reached.
C18_BothPassesContribute ==
    [][ /\ PassEnds =>
              /\ passes = 1 =>
                    results.filled_fields = <<>> /\ results.not_filled_fields = <<>>
              /\ results'.filled_fields = results.filled_fields \o filled_fields
              /\ results'.not_filled_fields =
                    results.not_filled_fields \o not_filled_fields
        /\ (passes >= 1 /\ ~PassEnds /\ pc' \notin {"idle", "done"}) =>
              /\ results'.filled_fields = results.filled_fields
              /\ results'.not_filled_fields = results.not_filled_fields
        /\ pc = "finish" =>
              /\ results'.final_url = cur_url
              /\ (opt_pagination /\ clicks >= 1) =>
                    passes = 2 /\ cur_url = "next"
      ]_vars


(***************************************************************************)
(* C19: the fill rate of the metrics.                                      *)
(***************************************************************************)
\* the string perform_autofill returned is the dump of an executor result
ResultReturned == pc = "done" /\ "metrics" \in DOMAIN out

\* C19: for every result that perform_autofill returns, metrics.fill_rate is
\* filled_count / (filled_count + not_filled_count) * 100, it lies in
\* [0, 100], and it is 0 (no division by zero) when filled_fields and
\* not_filled_fields are both empty, the result of a failed navigation
\* included.
C19_FillRateInRange ==
    ResultReturned =>
        LET m == out.metrics
            f == Len(results.filled_fields)
            n == Len(results.not_filled_fields)
            r == m.fill_rate
        IN  /\ m.filled_count = f
            /\ m.not_filled_count = n
            /\ r.den > 0
            /\ 0 <= r.num
            /\ r.num <= 100 * r.den
            /\ f + n > 0 => r.num * (f + n) = f * 100 * r.den
            /\ f + n = 0 => r.num = 0

\* the result of a failed navigation: nothing filled, nothing not filled
C19_Witness ==
    /\ ResultReturned
    /\ nav.goto = "fails"
    /\ out.success = FALSE
    /\ out.metrics.filled_count + out.metrics.not_filled_count = 0
    /\ out.metrics.fill_rate.num = 0

\* one field of two filled: a rate of 50
C19_WitnessHalf ==
    /\ ResultReturned
    /\ out.metrics.filled_count = 1
    /\ out.metrics.not_filled_count = 1
    /\ out.metrics.fill_rate = Fraction(100, 2)


(***************************************************************************)
(* C21: what the extractor keeps of a list of form controls.               *)
(***************************************************************************)
\* the kinds the extractor does not describe
SkippedKinds == {"hidden", "submit", "button"}

\* the positions of the controls of the page that are no input of a skipped
\* type (an input without a type attribute is a text input)
Described(es) ==
    { i \in 1..Len(es) :
        ~(es[i].tag = "input" /\ es[i].type \in SkippedKinds) }

\* the kind of a control: its tag, for an input its type
KindOf(el) ==
    IF el.tag = "input" THEN (IF el.type = "" THEN "text" ELSE el.type) ELSE el.tag

\* C21: the extractor emits no descriptor of kind hidden, submit or button:
\* every input of one of those types is skipped, and every other input,
\* select and textarea yields exactly one descriptor, in document order
\* (the k-th descriptor is that of the k-th control that is not skipped).
C21_NoHiddenSubmitButton ==
    (s_pc = "done" /\ s_out.format = "json") =>
        LET ds   == s_out.data.form_fields
            es   == s_page.elements
            kept == Described(es)
        IN  /\ \A k \in 1..Len(ds) : ds[k].type \notin SkippedKinds
            /\ Len(ds) = Cardinality(kept)
            /\ \A i \in kept :
                  LET k == Cardinality({ j \in kept : j <= i })
                  IN  /\ ds[k].type = KindOf(es[i])
                      /\ ds[k].name = es[i].name
                      /\ ds[k].required = es[i].required

\* a submit input before a text input: one descriptor, that of the text input
C21_Witness ==
    /\ s_pc = "done"
    /\ s_out.format = "json"
    /\ Len(s_page.elements) = 2
    /\ s_page.elements[1].type = "submit"
    /\ s_page.elements[2].name = "first_name"
    /\ Len(s_out.data.form_fields) = 1
    /\ s_out.data.form_fields[1].type = "text"


(***************************************************************************)
(* C22: the category the pattern-table mapper chooses.                     *)
(***************************************************************************)
\* perform_mapping has returned a mapping
PatternMapperAnswered ==
    /\ m_pc = "returned"
    /\ m_fn = "perform_mapping"
    /\ m_out.format = "json"

\* some pattern of the category matches the name, id, label or placeholder
PatternMatches(c, field) ==
    \E k \in 1..Len(field_mapping_patterns[c].patterns) :
        \E s \in {field.name, field.id, field.label, field.placeholder} :
            re_match(field_mapping_patterns[c].patterns[k], Lower(s))

\* the place of a category in the table
CategoryOf(user_field) ==
    CHOOSE c \in 1..Len(field_mapping_patterns) :
        field_mapping_patterns[c].user_field = user_field

\* every entry of the mapping was chosen for a field of its name, and its
\* category is the first of the `eligible` categories with a matching pattern
FirstMatchingWins(eligible) ==
    LET fields == m_fields.form_fields
        fm     == m_out.data.mapping_result.field_mapping
    IN \A e \in 1..Len(fm) :
          LET c == CategoryOf(fm[e][2].user_field)
          IN \E i \in 1..Len(fields) :
                /\ fields[i].name = fm[e][1]
                /\ c \in eligible
                /\ PatternMatches(c, fields[i])
                /\ \A b \in eligible : b < c => ~PatternMatches(b, fields[i])

\* C22 (as claimed): a field is mapped to the first category, in declaration
\* order, that has a pattern matching its name, id, label or placeholder; a
\* later-declared category is never chosen when an earlier-declared one has
\* a matching pattern.
C22_FirstCategoryWins ==
    PatternMapperAnswered => FirstMatchingWins(1..Len(field_mapping_patterns))

\* C22 (amended): a field is mapped to the first category, in declaration
\* order, that is a key of the user data schema and has a matching pattern;
\* a later-declared category is never chosen when an earlier-declared
\* category of the schema has a matching pattern.
C22_FirstSchemaCategoryWins ==
    PatternMapperAnswered =>
        FirstMatchingWins({ c \in 1..Len(field_mapping_patterns) :
                              field_mapping_patterns[c].user_field \in m_profile.schema })

\* the placeholder "First Name" matches the categories name and first name,
\* both in the schema: the field goes to name, the earlier of the two
C22_Witness ==
    /\ PatternMapperAnswered
    /\ {"name", "first[ _-]?name"} \subseteq m_profile.schema
    /\ Len(m_fields.form_fields) = 1
    /\ m_fields.form_fields[1].placeholder = "First Name"
    /\ Len(m_out.data.mapping_result.field_mapping) = 1
    /\ m_out.data.mapping_result.field_mapping[1][2].user_field = "name"


(***************************************************************************)
(* C23: the schema of a profile.                                           *)
(***************************************************************************)
\* the keys of the flattened profile
FlatKeys(profile) ==
    LET flat == flatten_user_data(profile)
    IN { flat[i][1] : i \in 1..Len(flat) }

\* C23: extract_schema_from_profile returns exactly the leaf paths of the
\* profile as dot-joined paths (nested objects walked at every depth, a list
\* of objects giving the leaf sub-paths of its first element, a list of
\* scalars its own path): the same set of paths as the keys of
\* flatten_user_data on the same profile, each path once.
C23_SchemaIsLeafPaths ==
    d_pc = "returned" =>
        /\ { d_schema[i] : i \in 1..Len(d_schema) } = FlatKeys(d_profile)
        /\ Len(d_schema) = Cardinality(FlatKeys(d_profile))


(***************************************************************************)
(* C24, C25: what the generator derives from kind and value.               *)
(***************************************************************************)
\* the generator has returned its instructions
InstructionsReturned ==
    /\ m_pc \in {"returned", "generated"}
    /\ i_out # NoOut
    /\ i_out.format = "json"

\* C24: the fill method of every instruction is determined by the kind
\* alone: select gives select_option, checkbox and radio give check, file
\* gives set_input_files, every other kind gives fill; two instructions of
\* the same kind have the same fill method whatever their name or value.
C24_FillMethodByKind ==
    InstructionsReturned =>
        LET ins == i_out.data.form_fields
        IN  /\ \A k \in 1..Len(ins) :
                  ins[k].fill_method =
                      CASE ins[k].field_type = "select"   -> "select_option"
                        [] ins[k].field_type = "checkbox" -> "check"
                        [] ins[k].field_type = "radio"    -> "check"
                        [] ins[k].field_type = "file"     -> "set_input_files"
                        [] OTHER                          -> "fill"
            /\ \A k, l \in 1..Len(ins) :
                  ins[k].field_type = ins[l].field_type =>
                      ins[k].fill_method = ins[l].fill_method

\* two file fields of different name and value, both set_input_files
C24_Witness ==
    /\ m_pc = "generated"
    /\ i_out.format = "json"
    /\ Len(i_out.data.form_fields) = 2
    /\ i_out.data.form_fields[1].field_type = "file"
    /\ i_out.data.form_fields[2].field_type = "file"
    /\ i_out.data.form_fields[1].field_name # i_out.data.form_fields[2].field_name
    /\ i_out.data.form_fields[1].value # i_out.data.form_fields[2].value
    /\ i_out.data.form_fields[1].fill_method = "set_input_files"
    /\ i_out.data.form_fields[2].fill_method = "set_input_files"


\* the matched fields the generator does not skip, up to the j-th
Instructed(mfs, j) ==
    { i \in 1..j : mfs[i].field_name # "" /\ mfs[i].field_type # "" }

\* C25: for a checkbox or radio matched field the instruction's checked flag
\* is true for every non-empty string value, the text "false" included,
\* false for the empty string, and a boolean value passes through unchanged.
C25_NonEmptyStringChecks ==
    (InstructionsReturned /\ m_pc = "generated") =>
        LET mfs == m_fields.matched_fields
            ins == i_out.data.form_fields
        IN  /\ Len(ins) = Cardinality(Instructed(mfs, Len(mfs)))
            /\ \A j \in Instructed(mfs, Len(mfs)) :
                  mfs[j].field_type \in {"checkbox", "radio"} =>
                      LET k == Cardinality(Instructed(mfs, j))
                      IN  /\ ins[k].field_name = mfs[j].field_name
                          /\ "checked" \in DOMAIN ins[k]
                          /\ mfs[j].value.kind = "str" =>
                                (ins[k].checked <=> mfs[j].value.value # "")
                          /\ mfs[j].value.kind = "bool" =>
                                ins[k].checked = mfs[j].value.value

\* a checkbox with the text "false" is checked, a radio with "" is not
C25_Witness ==
    /\ InstructionsReturned
    /\ m_pc = "generated"
    /\ Len(m_fields.matched_fields) = 2
    /\ m_fields.matched_fields[1].field_type = "checkbox"
    /\ m_fields.matched_fields[1].value = Str("false")
    /\ m_fields.matched_fields[2].field_type = "radio"
    /\ m_fields.matched_fields[2].value = Str("")
    /\ i_out.data.form_fields[1].checked = TRUE
    /\ i_out.data.form_fields[2].checked = FALSE


(***************************************************************************)
(* C26: one click per invocation of handle_pagination.                     *)
(***************************************************************************)
\* C26: handle_pagination clicks exactly one control, the first selector
\* that exists: a click ends the invocation, also when the wait for the next
\* page times out, so no selector is probed after a click and one invocation
\* never advances the form by more than one page.
C26_OneClickPerInvocation ==
    [][ (pc = "paginate" /\ clicks' # clicks) =>
            /\ clicks = 0
            /\ clicks' = 1
            /\ pc' # "paginate"
      ]_vars


(***************************************************************************)
(* C27: the collections of the result as sets.                             *)
(***************************************************************************)
\* no entry of the list occurs twice
NoDuplicates(list) == \A i, j \in 1..Len(list) : list[i] = list[j] => i = j

\* no two instructions of the list have the same name or the same selector
DistinctInstructions ==
    \A i, j \in 1..Len(form_fields) :
        i # j =>
            /\ form_fields[i].field_name # form_fields[j].field_name
            /\ variant = "guo" => form_fields[i].selector # form_fields[j].selector

\* C27: in the result of a call no entry occurs twice in filled_fields or
\* twice in not_filled_fields, and no entry occurs in both, also after the
\* two passes of a paginated run over the same instruction list (stated here
\* for the lists that name no field and no selector twice).
C27_ResultListsAreSets ==
    (CallOver /\ DistinctInstructions) =>
        /\ NoDuplicates(results.filled_fields)
        /\ NoDuplicates(results.not_filled_fields)
        /\ \A i \in 1..Len(results.filled_fields) :
              \A j \in 1..Len(results.not_filled_fields) :
                  results.filled_fields[i] # results.not_filled_fields[j]


(***************************************************************************)
(* C28: the browsers that perform_autofill leaves open.                    *)
(***************************************************************************)
\* C28: across any sequence of perform_autofill calls, whatever their
\* reuse_browser and keep_browser_open flags, at most one launched browser
\* is open at any time, and a browser that is open is the one recorded in
\* the process-wide handle (none is open and out of the handle's reach).
C28_AtMostOneOpenBrowser ==
    /\ Cardinality(open_browsers) <= 1
    /\ \A p \in open_browsers : p[1] = g_browser


(***************************************************************************)
(* C29: one outcome per instruction.                                       *)
(***************************************************************************)
\* the outcomes the running pass has recorded
Recorded == Len(filled_fields) + Len(not_filled_fields)

\* C29: one fill pass over N instructions records exactly N outcomes: each
\* instruction adds one entry to exactly one of filled_fields and
\* not_filled_fields (the other list is left as it was), and when the pass
\* ends the two lists hold N entries together, whatever mix of missing
\* selectors, missing elements, unknown fill methods and exceptions occurs.
C29_OneOutcomePerInstruction ==
    [][ /\ (pc = "fill" /\ pc' = "fill" /\ idx' # idx) =>
              /\ Recorded' = Recorded + 1
              /\ \/ filled_fields' = filled_fields
                 \/ not_filled_fields' = not_filled_fields
        /\ PassEnds => Recorded = Len(form_fields)
      ]_vars

\* a pass over an instruction without selector and a file input without
\* files: two outcomes, both not filled
C29_Witness ==
    /\ variant = "guo"
    /\ pc = "finish"
    /\ passes = 1
    /\ Len(form_fields) = 2
    /\ form_fields[1].selector = ""
    /\ form_fields[2].fill_method = "set_input_files"
    /\ filled_fields = <<>>
    /\ not_filled_fields = <<"email", "#resume">>


====
